---------------------------- MODULE Spec2Model ----------------------------
(***************************************************************************)
(* arkimaps: the render pipeline (arkimapslib/render.py), the recipe store *)
(* (arkimapslib/recipes.py), the steps (arkimapslib/steps.py) and the      *)
(* order summary (arkimapslib/orders.py) as state machines.                *)
(*                                                                         *)
(*   Spec           Renderer.render + Renderer.render_asyncio +            *)
(*                  Renderer.run_render_script: the bounded scheduler      *)
(*   SpecGroups     groups(orders, count)                                  *)
(*   SpecScript     Renderer.write_render_script on a file system          *)
(*   SpecRecipes    Recipes.add / add_derived / resolve_derived            *)
(*   SpecInherit    Recipe.inherit, RecipeStep.derive / change             *)
(*   SpecSteps      Step.compile_args and the constructors of the steps    *)
(*   SpecSummary    Order.summarize_orders                                 *)
(*   SpecRenderOne  Renderer.render_one                                    *)
(*   SpecGenerate   Renderer.make_python_renderer                          *)
(*   SpecPickle     Order.__getstate__ / Order.__setstate__                *)
(*   SpecShared     Recipe.inherit and AddGrib.__init__ on shared dicts    *)
(*                                                                         *)
(* Orders are the integers 1..N.  The function of a generated script that  *)
(* renders the order at position idx of its batch is called "order{idx}"   *)
(* (render.py:98); the model writes that name as the integer idx.          *)
(***************************************************************************)
EXTENDS Integers, Sequences, FiniteSets, TLC

\* ------------------------------------------------------------------ bounds

\* Largest number of orders handed to Renderer.render.
MaxOrders == 3

\* Largest batch size (count of groups(); render.py:124 fixes it to 16 in
\* Renderer.render, groups() itself takes any count).
MaxCount == 2

\* Largest worker pool (max_tasks = os.cpu_count(), render.py:143).
MaxPool == 2

\* Output descriptors one order's function may report in the summary.
OutCounts == {0, 1, 2}

\* Python's None: data without an 'extends' entry, a recipe without parent.
None == "None"

VARIABLES
    \* --- Renderer.render / render_asyncio / run_render_script
    batches,         \* the groups written by Renderer.render, in order: Seq(Seq(order))
    max_tasks,       \* render_asyncio's max_tasks
    cwd_is_workdir,  \* whether the process's working directory is self.workdir
    orders_by_name,  \* Renderer.orders_by_name: name (idx) -> order
    queue,           \* render_asyncio's queue: batch numbers in insertion order
    pending,         \* render_asyncio's pending: tasks (batch numbers) in flight
    done,            \* tasks returned by asyncio.wait and not yet notified
    pc,              \* where render_asyncio is
    task,            \* per batch: state of its task, and what its child did
    outputs,         \* Order.outputs per order: Seq(Output)
    render_time_ns,  \* Order.render_time_ns per order
    rendered,        \* render_asyncio's rendered list: Seq(order)
    archive,         \* relpaths added to tarout
    workfiles,       \* relpaths of the files present under self.workdir
    launches,        \* per batch: how many times create_task was called for it
    \* --- groups()
    g_orders,        \* the orders given to groups()
    g_count,         \* its count
    g_result,        \* the groups it generated
    g_pc,            \* "call" before, "done" after
    \* --- Renderer.write_render_script
    fs,              \* the file system: path -> inode (0: no file), inode -> content
    fs_before,       \* fs.path before the call
    w_orders,        \* the batch given to write_render_script
    w_result,        \* what it returned (script_file), and whether it raised
    w_pc,            \* "call" before, "done" after
    \* --- Recipes
    recipes,         \* Recipes.recipes: name -> recipe
    new_derived,     \* Recipes.new_derived: name -> pending definition
    r_result,        \* how the last call on the store ended
    \* --- Recipe.inherit
    i_parent,        \* the parent Recipe: its mixer and its steps
    i_data,          \* the derived definition: mixer override, change-sets by id
    i_result,        \* the Recipe made, or the error raised
    i_pc,            \* "call" before, "done" after
    \* --- Step.compile_args / Step.__init__
    s_cls,           \* the step class
    s_defaults,      \* its class attribute `defaults` (None, or a dict)
    s_args,          \* the args the recipe supplies
    s_options,       \* step_config.options, the flavour's options for the step
    s_sources,       \* the resolved sources: the input names available
    s_result,        \* what the call returned or raised
    s_pc,            \* "call" before, "compiled" / "constructed" after
    s_names,         \* what get_input_names returned, once it was called
    \* --- Order.summarize_orders
    o_orders,        \* the orders given to summarize_orders
    o_result,        \* the records it returned
    o_pc,            \* "call" before, "done" after
    \* --- Renderer.render_one
    one_order,       \* the order given to the last render_one call (0: none yet)
    one_result,      \* how that call ended: the order returned, or the error
    \* --- Renderer.make_python_renderer
    m_log,           \* the calls made so far: the batch given, the text returned
    m_before,        \* orders_by_name as it was before the last call
    \* --- Order.__getstate__ / Order.__setstate__
    p_order,         \* the __dict__ of the order whose state is taken
    p_before,        \* that __dict__ as it was before __getstate__
    p_state,         \* the state __getstate__ returned
    p_new,           \* the __dict__ of the order the state is loaded into
    p_pc,            \* "call", "state" after __getstate__, "done" after __setstate__
    \* --- Recipe.inherit and AddGrib.__init__ on the dict objects they share
    h_heap,          \* the dict objects: address -> dict
    h_orig,          \* every object as the call that created it left it
    h_parent,        \* the parent recipe's steps: name, id, address of the args
    h_options,       \* address of step_config.options, the flavour's options
    h_derived,       \* the step lists of the recipes inherited from the parent
    h_built,         \* how many steps were constructed
    h_result         \* the last call: what it was given, made, and the heap before

schedVars == <<batches, max_tasks, cwd_is_workdir, orders_by_name, queue, pending,
               done, pc, task, outputs, render_time_ns, rendered, archive,
               workfiles, launches>>

groupVars == <<g_orders, g_count, g_result, g_pc>>

scriptVars == <<fs, fs_before, w_orders, w_result, w_pc>>

recipeVars == <<recipes, new_derived, r_result>>

inheritVars == <<i_parent, i_data, i_result, i_pc>>

stepVars == <<s_cls, s_defaults, s_args, s_options, s_sources, s_result, s_pc,
              s_names>>

summaryVars == <<o_orders, o_result, o_pc>>

oneVars == <<one_order, one_result>>

genVars == <<m_log, m_before>>

\* The state of the operations modelled last.
pickleVars == <<p_order, p_before, p_state, p_new, p_pc>>

sharedVars == <<h_heap, h_orig, h_parent, h_options, h_derived, h_built, h_result>>

lateVars == <<genVars, pickleVars, sharedVars>>

\* The state of the operations modelled after the recipe store.
restVars == <<inheritVars, stepVars, summaryVars, oneVars, lateVars>>

vars == <<schedVars, groupVars, scriptVars, recipeVars, restVars>>

\* ------------------------------------------------------------ groups()

\* The generator without its final `if group: yield group`.
RECURSIVE GroupsLoopNoTail(_, _, _, _, _)
GroupsLoopNoTail(orders, count, i, group, out) ==
    IF i > Len(orders)
    THEN out
    ELSE LET g == Append(group, orders[i])
         IN  IF Len(g) = count
             THEN GroupsLoopNoTail(orders, count, i + 1, <<>>, Append(out, g))
             ELSE GroupsLoopNoTail(orders, count, i + 1, g, out)

\* render.py:45-52: the generator's loop from position i on, `group` being
\* the group under construction and `out` the groups yielded so far.
RECURSIVE GroupsLoop(_, _, _, _, _)
GroupsLoop(orders, count, i, group, out) ==
    IF i > Len(orders)
    THEN IF group # <<>> THEN Append(out, group) ELSE out
    ELSE LET g == Append(group, orders[i])
         IN  IF Len(g) = count
             THEN GroupsLoop(orders, count, i + 1, <<>>, Append(out, g))
             ELSE GroupsLoop(orders, count, i + 1, g, out)

groups(orders, count) == GroupsLoop(orders, count, 1, <<>>, <<>>)

\* ------------------------------------------------ make_python_renderer

\* render.py:97-99: the entries make_python_renderer stores in
\* self.orders_by_name for one batch: "order{idx}" -> the idx-th order.
NameEntries(obn, batch) ==
    [n \in (DOMAIN obn) \cup (0 .. Len(batch) - 1) |->
        IF n < Len(batch) THEN batch[n + 1] ELSE obn[n]]

\* render.py:128-130: orders_by_name after write_render_script has been
\* called for the first k groups, in order.
RECURSIVE NamesAfter(_, _)
NamesAfter(bs, k) ==
    IF k = 0 THEN <<>>
    ELSE NameEntries(NamesAfter(bs, k - 1), bs[k])

\* The orders 1..n as the list given to Renderer.render.
OrderList(n) == [i \in 1 .. n |-> i]

Orders == 1 .. Len(outputs)
Batches == 1 .. Len(batches)

\* The batch an order was put in by groups().
BatchOf(o) == CHOOSE b \in Batches : \E i \in 1 .. Len(batches[b]) : batches[b][i] = o

\* ------------------------------------------------------ the child process

\* The summary the generated script prints (render.py:104) when the function
\* of the order at idx reports cnt[idx] outputs: timings for the names in
\* `timed`, outputs in the order the functions are invoked (render.py:102-103).
\* The k-th output of order o has relpath <<o, k>>; the timing reported for
\* order o is o nanoseconds.
RECURSIVE OutputsOf(_, _, _)
OutputsOf(batch, cnt, idx) ==
    IF idx >= Len(batch) THEN <<>>
    ELSE [k \in 1 .. cnt[idx] |-> [name |-> idx, relpath |-> <<batch[idx + 1], k>>]]
         \o OutputsOf(batch, cnt, idx + 1)

Summary(batch, cnt, timed) ==
    [kind |-> "summary",
     timings |-> [n \in timed |-> batch[n + 1]],
     outputs |-> OutputsOf(batch, cnt, 0)]

Names(batch) == 0 .. Len(batch) - 1

\* What a child may write to its standard output: nothing, text that is not
\* JSON, the summary of the contract (the function of each order reporting
\* some number of outputs), a summary lacking one timing, or a summary with
\* one more output under a name no script defines.
Uniform(batch, c) == [n \in Names(batch) |-> c]

Stdouts(batch) ==
    {[kind |-> "empty", timings |-> <<>>, outputs |-> <<>>],
     [kind |-> "garbage", timings |-> <<>>, outputs |-> <<>>]}
    \cup {Summary(batch, cnt, Names(batch)) : cnt \in [Names(batch) -> OutCounts]}
    \cup {Summary(batch, Uniform(batch, 1), Names(batch) \ {m}) : m \in Names(batch)}
    \cup {[Summary(batch, Uniform(batch, 1), Names(batch))
            EXCEPT !.outputs = Append(@, [name |-> MaxOrders + MaxCount,
                                          relpath |-> <<0, 1>>])]}

\* How a child may end: with status 0 and any of these outputs, or with a
\* non-zero status having written nothing or having written the whole summary.
ChildRuns(batch) ==
    {[exit |-> 0, stdout |-> s] : s \in Stdouts(batch)}
    \cup {[exit |-> 1, stdout |-> s] :
            s \in {[kind |-> "empty", timings |-> <<>>, outputs |-> <<>>],
                   Summary(batch, Uniform(batch, 1), Names(batch))}}

\* The files a child has written under workdir when it exits: the outputs it
\* reports.
Produced(stdout) == {stdout.outputs[i].relpath : i \in 1 .. Len(stdout.outputs)}

\* ---------------------------------------------------- run_render_script

\* render.py:201-205: the loop over the parsed outputs from position i on.
\* st = [outputs, render_time_ns, raised]; a KeyError leaves what was
\* already assigned.
RECURSIVE SetRenderInfo(_, _, _)
SetRenderInfo(stdout, i, st) ==
    IF i > Len(stdout.outputs) THEN st
    ELSE LET output == stdout.outputs[i]
         IN  IF output.name \notin DOMAIN orders_by_name
             THEN [st EXCEPT !.raised = TRUE]
             ELSE LET order == orders_by_name[output.name]
                      appended == [st EXCEPT !.outputs[order] = Append(@, output)]
                  IN  IF output.name \notin DOMAIN stdout.timings
                      THEN [appended EXCEPT !.raised = TRUE]
                      ELSE SetRenderInfo(stdout, i + 1,
                              [appended EXCEPT !.render_time_ns[order] =
                                  @ + stdout.timings[output.name]])

\* render.py:198: json.loads(stdout) raises unless stdout is one JSON text.
Parses(stdout) == stdout.kind = "summary"

\* render.py:193-207: the orders, and whether the coroutine raised, for a
\* child that exited with `exit` having written `stdout`.
run_render_script(exit, stdout) ==
    IF ~Parses(stdout)
    THEN [outputs |-> outputs, render_time_ns |-> render_time_ns, raised |-> TRUE]
    ELSE SetRenderInfo(stdout, 1,
            [outputs |-> outputs, render_time_ns |-> render_time_ns, raised |-> FALSE])

\* --------------------------------------------------------- render_asyncio

\* render.py:184-187 for the outputs of one order from position i on.
\* st = [archive, workfiles, rendered, raised].  tarout.add reads the file at
\* workdir/relpath; os.unlink is given relpath alone, which names that file
\* only when the working directory is workdir (no file of that relative path
\* lies under another working directory).
RECURSIVE MoveOutputs(_, _, _)
MoveOutputs(outs, i, st) ==
    IF i > Len(outs) THEN st
    ELSE LET rel == outs[i].relpath
         IN  IF rel \notin st.workfiles
             THEN [st EXCEPT !.raised = TRUE]            \* tarout.add: no such file
             ELSE LET added == [st EXCEPT !.archive = @ \cup {rel}]
                  IN  IF ~cwd_is_workdir
                      THEN [added EXCEPT !.raised = TRUE] \* os.unlink(relpath): no such file
                      ELSE MoveOutputs(outs, i + 1,
                              [added EXCEPT !.workfiles = @ \ {rel}])

\* render.py:179-189 for the orders of one batch from position j on.
RECURSIVE NotifyOrders(_, _, _)
NotifyOrders(ords, j, st) ==
    IF j > Len(ords) THEN st
    ELSE LET moved == MoveOutputs(outputs[ords[j]], 1, st)
         IN  IF moved.raised THEN moved
             ELSE NotifyOrders(ords, j + 1,
                     [moved EXCEPT !.rendered = Append(@, ords[j])])

NoChild == [exit |-> 0, stdout |-> [kind |-> "none", timings |-> <<>>, outputs |-> <<>>]]

\* Renderer.render, render.py:124-133, for n orders in groups of count, and
\* render_asyncio up to its loop, render.py:143-147.
InitRender(n, count, p, cwd) ==
    /\ batches = groups(OrderList(n), count)
    /\ max_tasks = p
    /\ cwd_is_workdir = cwd
    /\ orders_by_name = NamesAfter(batches, Len(batches))
    /\ queue = [b \in 1 .. Len(batches) |-> b]
    /\ pending = {}
    /\ done = {}
    /\ pc = "loop"
    /\ task = [b \in 1 .. Len(batches) |-> [state |-> "queued", child |-> NoChild]]
    /\ outputs = [o \in 1 .. n |-> <<>>]
    /\ render_time_ns = [o \in 1 .. n |-> 0]
    /\ rendered = <<>>
    /\ archive = {}
    /\ workfiles = {}
    /\ launches = [b \in 1 .. Len(batches) |-> 0]

\* The parts of the state a specification does not use.
IdleRender == InitRender(0, 1, 1, TRUE)

IdleGroups ==
    /\ g_orders = <<>>
    /\ g_count = 1
    /\ g_result = <<>>
    /\ g_pc = "idle"

IdleScript ==
    /\ fs = [path |-> <<>>, data |-> <<>>]
    /\ fs_before = <<>>
    /\ w_orders = <<>>
    /\ w_result = [script_file |-> 0, raised |-> FALSE]
    /\ w_pc = "idle"

IdleRecipes ==
    /\ recipes = <<>>
    /\ new_derived = <<>>
    /\ r_result = [kind |-> "none", name |-> None, defined_in |-> None]

IdleInherit ==
    /\ i_parent = [mixer |-> "default", steps |-> <<>>]
    /\ i_data = [mixer |-> None, change |-> <<>>]
    /\ i_result = [raised |-> FALSE, mixer |-> None, steps |-> <<>>]
    /\ i_pc = "idle"

IdleSteps ==
    /\ s_cls = "Step"
    /\ s_defaults = [is_none |-> TRUE, items |-> <<>>]
    /\ s_args = <<>>
    /\ s_options = <<>>
    /\ s_sources = {}
    /\ s_result = [raised |-> FALSE, params |-> <<>>, missing |-> None, available |-> {}]
    /\ s_pc = "idle"
    /\ s_names = [called |-> FALSE, names |-> {}]

IdleSummary ==
    /\ o_orders = <<>>
    /\ o_result = <<>>
    /\ o_pc = "idle"

IdleOne ==
    /\ one_order = 0
    /\ one_result = [kind |-> "none", order |-> 0, child |-> NoChild,
                     before |-> [outputs |-> <<>>, render_time_ns |-> <<>>]]

IdleGen ==
    /\ m_log = <<>>
    /\ m_before = <<>>

IdlePickle ==
    /\ p_order = <<>>
    /\ p_before = <<>>
    /\ p_state = <<>>
    /\ p_new = <<>>
    /\ p_pc = "idle"

IdleShared ==
    /\ h_heap = <<>>
    /\ h_orig = <<>>
    /\ h_parent = <<>>
    /\ h_options = 0
    /\ h_derived = <<>>
    /\ h_built = 0
    /\ h_result = [op |-> "none", raised |-> FALSE, before |-> <<>>, parent |-> <<>>,
                   args |-> 0, sources |-> <<>>, made |-> 0]

IdleLate == IdleGen /\ IdlePickle /\ IdleShared

IdleRest == IdleInherit /\ IdleSteps /\ IdleSummary /\ IdleOne /\ IdleLate

Init ==
    /\ \E n \in 0 .. MaxOrders, count \in 1 .. MaxCount, p \in 1 .. MaxPool,
          cwd \in BOOLEAN :
           InitRender(n, count, p, cwd)
    /\ IdleGroups /\ IdleScript /\ IdleRecipes /\ IdleRest

\* render.py:148: the test of the outer while loop.
LoopTest ==
    /\ pc = "loop"
    /\ pc' = IF queue # <<>> \/ pending # {} THEN "refill" ELSE "returned"
    /\ UNCHANGED <<batches, max_tasks, cwd_is_workdir, orders_by_name, queue,
                   pending, done, task, outputs, render_time_ns, rendered,
                   archive, workfiles, launches>>
    /\ UNCHANGED <<groupVars, scriptVars, recipeVars, restVars>>

\* The refill guard admitting one task too many.
CanRefillOffByOne == queue # <<>> /\ Cardinality(pending) <= max_tasks

\* The refill guard leaving one slot of the pool unused.
CanRefillOneShort == queue # <<>> /\ Cardinality(pending) < max_tasks - 1

\* render.py:159: the guard of the refill loop.
CanRefill == queue # <<>> /\ Cardinality(pending) < max_tasks

\* render.py:159-161: one turn of the refill loop; dict.popitem() takes the
\* entry inserted last.
Refill ==
    /\ pc = "refill"
    /\ CanRefill
    /\ LET b == queue[Len(queue)]
       IN  /\ queue' = SubSeq(queue, 1, Len(queue) - 1)
           /\ pending' = pending \cup {b}
           /\ task' = [task EXCEPT ![b].state = "running"]
           /\ launches' = [launches EXCEPT ![b] = @ + 1]
    /\ UNCHANGED <<batches, max_tasks, cwd_is_workdir, orders_by_name, done, pc,
                   outputs, render_time_ns, rendered, archive, workfiles>>
    /\ UNCHANGED <<groupVars, scriptVars, recipeVars, restVars>>

\* render.py:165: the refill loop is over, render_asyncio suspends.
Suspend ==
    /\ pc = "refill"
    /\ ~CanRefill
    /\ pc' = "wait"
    /\ UNCHANGED <<batches, max_tasks, cwd_is_workdir, orders_by_name, queue,
                   pending, done, task, outputs, render_time_ns, rendered,
                   archive, workfiles, launches>>
    /\ UNCHANGED <<groupVars, scriptVars, recipeVars, restVars>>

\* render.py:193-207: while render_asyncio is suspended, the child of batch b
\* exits and its task finishes, with a result or with an exception.
TaskFinish(b) ==
    /\ pc = "wait"
    /\ b \in pending
    /\ task[b].state = "running"
    /\ \E run \in ChildRuns(batches[b]) :
         LET r == run_render_script(run.exit, run.stdout)
         IN  /\ outputs' = r.outputs
             /\ render_time_ns' = r.render_time_ns
             /\ task' = [task EXCEPT ![b] =
                    [state |-> IF r.raised THEN "failed" ELSE "completed",
                     child |-> run]]
             /\ workfiles' = workfiles \cup Produced(run.stdout)
    /\ UNCHANGED <<batches, max_tasks, cwd_is_workdir, orders_by_name, queue,
                   pending, done, pc, rendered, archive, launches>>
    /\ UNCHANGED <<groupVars, scriptVars, recipeVars, restVars>>

Finished(b) == task[b].state \in {"completed", "failed"}

\* render.py:165: asyncio.wait returns once a task has finished: done holds
\* the finished tasks, pending the others.
Wake ==
    /\ pc = "wait"
    /\ \E b \in pending : Finished(b)
    /\ done' = {b \in pending : Finished(b)}
    /\ pending' = {b \in pending : ~Finished(b)}
    /\ pc' = "notify"
    /\ UNCHANGED <<batches, max_tasks, cwd_is_workdir, orders_by_name, queue,
                   task, outputs, render_time_ns, rendered, archive, workfiles,
                   launches>>
    /\ UNCHANGED <<groupVars, scriptVars, recipeVars, restVars>>

\* render.py:173-177: task.result() raises, the task is logged and skipped.
NotifyFailed(b) ==
    /\ pc = "notify"
    /\ b \in done
    /\ task[b].state = "failed"
    /\ done' = done \ {b}
    /\ UNCHANGED <<batches, max_tasks, cwd_is_workdir, orders_by_name, queue,
                   pending, pc, task, outputs, render_time_ns, rendered, archive,
                   workfiles, launches>>
    /\ UNCHANGED <<groupVars, scriptVars, recipeVars, restVars>>

\* render.py:173-189: task.result() returns the batch's orders; their
\* outputs are moved to the archive and the orders appended to rendered.
\* An exception of tarout.add or os.unlink leaves render_asyncio.
NotifyCompleted(b) ==
    /\ pc = "notify"
    /\ b \in done
    /\ task[b].state = "completed"
    /\ LET r == NotifyOrders(batches[b], 1,
                   [archive |-> archive, workfiles |-> workfiles,
                    rendered |-> rendered, raised |-> FALSE])
       IN  /\ archive' = r.archive
           /\ workfiles' = r.workfiles
           /\ rendered' = r.rendered
           /\ pc' = IF r.raised THEN "raised" ELSE pc
    /\ done' = done \ {b}
    /\ UNCHANGED <<batches, max_tasks, cwd_is_workdir, orders_by_name, queue,
                   pending, task, outputs, render_time_ns, launches>>
    /\ UNCHANGED <<groupVars, scriptVars, recipeVars, restVars>>

\* render.py:169: the for loop over done is over.
NotifyEnd ==
    /\ pc = "notify"
    /\ done = {}
    /\ pc' = "loop"
    /\ UNCHANGED <<batches, max_tasks, cwd_is_workdir, orders_by_name, queue,
                   pending, done, task, outputs, render_time_ns, rendered,
                   archive, workfiles, launches>>
    /\ UNCHANGED <<groupVars, scriptVars, recipeVars, restVars>>

Next ==
    \/ LoopTest
    \/ Refill
    \/ Suspend
    \/ \E b \in Batches : TaskFinish(b)
    \/ Wake
    \/ \E b \in Batches : NotifyFailed(b)
    \/ \E b \in Batches : NotifyCompleted(b)
    \/ NotifyEnd

Spec == Init /\ [][Next]_vars

\* ================================================== SpecGroups: groups()

\* The lists of at most n elements of S.
SeqsUpTo(S, n) == UNION {[1 .. k -> S] : k \in 0 .. n}

\* Any list of at most MaxOrders orders and any count from 1 to MaxCount.
InitGroups ==
    /\ g_orders \in SeqsUpTo(1 .. MaxOrders, MaxOrders)
    /\ g_count \in 1 .. MaxCount
    /\ g_result = <<>>
    /\ g_pc = "call"
    /\ IdleRender /\ IdleScript /\ IdleRecipes /\ IdleRest

\* render.py:128: list(groups(orders, count)).
GroupsCall ==
    /\ g_pc = "call"
    /\ g_result' = groups(g_orders, g_count)
    /\ g_pc' = "done"
    /\ UNCHANGED <<g_orders, g_count>>
    /\ UNCHANGED <<schedVars, scriptVars, recipeVars, restVars>>

NextGroups == GroupsCall

SpecGroups == InitGroups /\ [][NextGroups]_vars

RECURSIVE Flatten(_)
Flatten(ss) == IF ss = <<>> THEN <<>> ELSE Head(ss) \o Flatten(Tail(ss))

\* ceil(n / k) for k > 0.
CeilDiv(n, k) == (n + k - 1) \div k

\* C6: groups(orders, K) yields exactly ceil(N/K) batches, each non-empty,
\* each but possibly the last of exactly K orders, whose concatenation in
\* order is the input list.
C6_GroupsPartition ==
    g_pc = "done" =>
        /\ Len(g_result) = CeilDiv(Len(g_orders), g_count)
        /\ \A b \in 1 .. Len(g_result) :
              /\ g_result[b] # <<>>
              /\ b < Len(g_result) => Len(g_result[b]) = g_count
              /\ Len(g_result[b]) <= g_count
        /\ Flatten(g_result) = g_orders

\* C6's case: a list that does not divide evenly, the last batch is shorter.
C6_Witness ==
    /\ g_pc = "done"
    /\ Len(g_result) >= 2
    /\ Len(g_result[Len(g_result)]) < g_count

\* ================================= SpecScript: Renderer.write_render_script

\* order.render_script: every order has a script path of its own; the model
\* writes the path of order o as o.
render_script(o) == o

\* make_python_renderer's text for a batch (render.py:94-105): the preamble,
\* one function per order in order, one call per order, the summary line.
python_code(orders) == <<"script", orders>>

\* --- the file system.  fs.path[p] is the inode path p names (0: no such
\* file), fs.data[i] the content of inode i.

\* os.unlink(p): the name is removed, the inode stays for its other names.
\* raised: FileNotFoundError.
OsUnlink(f, p) ==
    IF f.path[p] = 0
    THEN [fs |-> f, raised |-> TRUE]
    ELSE [fs |-> [f EXCEPT !.path[p] = 0], raised |-> FALSE]

\* write_render_script without the removal of the old file.
RemoveOldSkipped(f, p) == f

\* render.py:234-237: unlink, FileNotFoundError ignored.
RemoveOld(f, p) == OsUnlink(f, p).fs

FreshInode(f) == Len(f.data) + 1

\* open(p, "wt").write(text): an existing file is truncated and rewritten in
\* place (every name of its inode sees the text), a missing one is created.
OpenWrite(f, p, text) ==
    IF f.path[p] # 0
    THEN [f EXCEPT !.data[f.path[p]] = text]
    ELSE [path |-> [f.path EXCEPT ![p] = FreshInode(f)],
          data |-> Append(f.data, text)]

\* os.link(src, dst): dst becomes another name of src's inode.  raised:
\* FileNotFoundError (no src) or FileExistsError (dst exists).
OsLink(f, src, dst) ==
    IF f.path[src] = 0 \/ f.path[dst] # 0
    THEN [fs |-> f, raised |-> TRUE]
    ELSE [fs |-> [f EXCEPT !.path[dst] = f.path[src]], raised |-> FALSE]

\* What reading path p gives: the content, or "ENOENT".
ReadFile(f, p) == IF f.path[p] = 0 THEN "ENOENT" ELSE f.data[f.path[p]]

\* render.py:229-244: the loop over the batch from position i on.
\* st = [fs, script_file (0: None), raised].
RECURSIVE WriteLoop(_, _, _, _)
WriteLoop(orders, text, i, st) ==
    IF i > Len(orders) THEN st
    ELSE LET p == render_script(orders[i])
             removed == RemoveOld(st.fs, p)
         IN  IF st.script_file = 0
             THEN WriteLoop(orders, text, i + 1,
                     [st EXCEPT !.fs = OpenWrite(removed, p, text),
                                !.script_file = p])
             ELSE LET linked == OsLink(removed, st.script_file, p)
                  IN  IF linked.raised
                      THEN [st EXCEPT !.fs = linked.fs, !.raised = TRUE]
                      ELSE WriteLoop(orders, text, i + 1,
                              [st EXCEPT !.fs = linked.fs])

\* The lists of distinct elements of S.
DistinctSeqs(S) ==
    {q \in SeqsUpTo(S, Cardinality(S)) : \A i, j \in 1 .. Len(q) : q[i] = q[j] => i = j}

\* The content files left by an earlier run have.
Stale(i) == <<"stale", i>>

\* A non-empty batch of distinct orders, and a work directory where each
\* script path names no file or one of two files of an earlier run (two
\* paths may be links to the same old file).
InitScript ==
    /\ w_orders \in DistinctSeqs(1 .. MaxOrders) \ {<<>>}
    /\ \E paths \in [1 .. MaxOrders -> {0, 1, 2}] :
          /\ fs = [path |-> paths, data |-> <<Stale(1), Stale(2)>>]
          /\ fs_before = paths
    /\ w_result = [script_file |-> 0, raised |-> FALSE]
    /\ w_pc = "call"
    /\ IdleRender /\ IdleGroups /\ IdleRecipes /\ IdleRest

\* render.py:224-246: write_render_script(orders), with the entries
\* make_python_renderer stores in orders_by_name (render.py:99).
WriteRenderScript ==
    /\ w_pc = "call"
    /\ LET r == WriteLoop(w_orders, python_code(w_orders), 1,
                          [fs |-> fs, script_file |-> 0, raised |-> FALSE])
       IN  /\ fs' = r.fs
           /\ w_result' = [script_file |-> r.script_file, raised |-> r.raised]
    /\ orders_by_name' = NameEntries(orders_by_name, w_orders)
    /\ w_pc' = "done"
    /\ UNCHANGED <<fs_before, w_orders>>
    /\ UNCHANGED <<batches, max_tasks, cwd_is_workdir, queue, pending, done, pc,
                   task, outputs, render_time_ns, rendered, archive, workfiles,
                   launches>>
    /\ UNCHANGED <<groupVars, recipeVars, restVars>>

NextScript == WriteRenderScript

SpecScript == InitScript /\ [][NextScript]_vars

\* C7: after write_render_script(batch) the call has returned the first
\* order's path, and reading the script path of every order of the batch
\* gives the generated text, whatever was at those paths before; the paths of
\* the other orders are names of the one file written at the first path.
C7_ScriptAtEveryPath ==
    w_pc = "done" =>
        /\ ~w_result.raised
        /\ w_result.script_file = render_script(w_orders[1])
        /\ \A i \in 1 .. Len(w_orders) :
              /\ ReadFile(fs, render_script(w_orders[i])) = python_code(w_orders)
              /\ fs.path[render_script(w_orders[i])] = fs.path[w_result.script_file]

\* C7's case: a batch of several orders written over files of an earlier run,
\* two of the batch's paths being links to one old file.
C7_Witness ==
    /\ w_pc = "done"
    /\ Len(w_orders) >= 2
    /\ fs_before[render_script(w_orders[1])] # 0
    /\ fs_before[render_script(w_orders[1])] = fs_before[render_script(w_orders[2])]

\* ============================================ SpecRecipes: the recipe store

RecipeNames == {"a", "b", "c"}

\* The files recipes are defined in.
Origins == {"f1", "f2"}

\* A dict with the entry k: v added or replaced.
Put(d, k, v) == [x \in (DOMAIN d) \cup {k} |-> IF x = k THEN v ELSE d[x]]

\* A dict without the key k.
Pop(d, k) == [x \in (DOMAIN d) \ {k} |-> d[x]]

\* How a call on the store ended: normally, or with the RuntimeError raised at
\* one of the four places of recipes.py.  The recipe and the file its message
\* names are kept for the error of recipes.py:56, where the properties read
\* them, and left out (None) for the others.
Returned == [kind |-> "ok", name |-> None, defined_in |-> None]
Raised(kind, name, defined_in) == [kind |-> kind, name |-> name, defined_in |-> defined_in]

\* A Recipe of the store: where it was defined, and the recipe it was
\* inherited from (None for a recipe added as it was loaded).
RecipeOf(defined_in, parent) == [defined_in |-> defined_in, parent |-> parent]

\* recipes.py:25-28: Recipes.__init__.
InitRecipes ==
    /\ recipes = <<>>
    /\ new_derived = <<>>
    /\ r_result = [kind |-> "none", name |-> None, defined_in |-> None]
    /\ IdleRender /\ IdleGroups /\ IdleScript /\ IdleRest

\* recipes.py:37-39: the test Recipes.add makes before it inserts.
AddConflicts(name) == name \in DOMAIN recipes

\* recipes.py:33-40: Recipes.add(recipe).
Add(name, defined_in) ==
    /\ IF AddConflicts(name)
       THEN /\ r_result' = Raised("add: defined twice", None, None)
            /\ UNCHANGED <<recipes, new_derived>>
       ELSE /\ recipes' = Put(recipes, name, RecipeOf(defined_in, None))
            /\ r_result' = Returned
            /\ UNCHANGED new_derived
    /\ UNCHANGED <<schedVars, groupVars, scriptVars, restVars>>

\* add_derived without its test on the pending definitions.
PendingConflictsUnchecked(name) == FALSE

\* recipes.py:54-56: the test add_derived makes on the pending definitions.
PendingConflicts(name) == name \in DOMAIN new_derived

\* recipes.py:42-62: Recipes.add_derived(name, defined_in, data), extends
\* being data's 'extends' entry, None when data has none.
AddDerived(name, defined_in, extends) ==
    /\ IF extends = None
       THEN /\ r_result' = Raised("add_derived: no extends", None, None)
            /\ UNCHANGED <<recipes, new_derived>>
       ELSE IF name \in DOMAIN recipes
       THEN /\ r_result' = Raised("add_derived: defined twice", None, None)
            /\ UNCHANGED <<recipes, new_derived>>
       ELSE IF PendingConflicts(name)
       THEN /\ r_result' = Raised("add_derived: pending twice", name, defined_in)
            /\ UNCHANGED <<recipes, new_derived>>
       ELSE /\ new_derived' = Put(new_derived, name,
                                  [defined_in |-> defined_in, extends |-> extends])
            /\ r_result' = Returned
            /\ UNCHANGED recipes
    /\ UNCHANGED <<schedVars, groupVars, scriptVars, restVars>>

\* --- toposort.sort (arkimapslib/toposort.py), as spec.md section 4.1
\* describes it: a topological order over the union of the nodes, every node
\* after the node it depends on; a node whose dependency cannot be placed (a
\* missing parent, a cycle) is a resolution error.

\* recipes.py:75-79: the dependency graph, concrete recipes first, then the
\* pending ones (a pending name replaces the entry of a concrete one).
DepNodes == (DOMAIN recipes) \cup (DOMAIN new_derived)
Deps(n) == IF n \in DOMAIN new_derived THEN {new_derived[n].extends} ELSE {}

Range(q) == {q[i] : i \in 1 .. Len(q)}

\* The order extended by the nodes that can be placed after it.
RECURSIVE SortFrom(_)
SortFrom(placed) ==
    LET ready == {n \in DepNodes \ Range(placed) : Deps(n) \subseteq Range(placed)}
    IN  IF ready = {} THEN placed
        ELSE SortFrom(Append(placed, CHOOSE n \in ready : TRUE))

\* The nodes in dependency order; shorter than the graph when some node
\* cannot be placed.
TopoOrder == SortFrom(<<>>)
TopoFails == Len(TopoOrder) < Cardinality(DepNodes)

\* Recipe.inherit (recipes.py:188-210) as far as the store is concerned: a
\* recipe of the given origin made from the parent.
inherit(defined_in, parent) == RecipeOf(defined_in, parent)

\* recipes.py:82-89: the loop over the first k names of the order, from
\* position i on.  st = [recipes, new_derived, raised]; raised: the KeyError
\* of self.recipes[info["extends"]] (recipes.py:87), which comes after the
\* pending definition has been popped (recipes.py:86).
RECURSIVE Instantiate(_, _, _, _)
Instantiate(order, k, i, st) ==
    IF i > k THEN st
    ELSE LET name == order[i]
         IN  IF name \in DOMAIN st.recipes
             THEN Instantiate(order, k, i + 1, st)
             ELSE LET info == st.new_derived[name]
                      popped == [st EXCEPT !.new_derived = Pop(@, name)]
                  IN  IF info.extends \notin DOMAIN st.recipes
                      THEN [popped EXCEPT !.raised = TRUE]
                      ELSE Instantiate(order, k, i + 1,
                              [popped EXCEPT !.recipes =
                                  Put(@, name, inherit(info.defined_in, info.extends))])

\* resolve_derived returning normally although the sort could not place
\* every node.
ResolveEndsQuietly(sort_failed, lookup_failed) == Returned

\* How resolve_derived ends: with the error of the sort, with the KeyError of
\* the parent lookup, or normally.
ResolveEnds(sort_failed, lookup_failed) ==
    IF lookup_failed THEN Raised("resolve_derived: KeyError", None, None)
    ELSE IF sort_failed THEN Raised("resolve_derived: cannot place", None, None)
    ELSE Returned

\* resolve_derived forgetting the definitions the sort could not place.
ResolveDerivedDropsUnplaced ==
    /\ LET st == Instantiate(TopoOrder, Len(TopoOrder), 1,
                     [recipes |-> recipes, new_derived |-> new_derived,
                      raised |-> FALSE])
       IN  /\ recipes' = st.recipes
           /\ new_derived' = <<>>
           /\ r_result' = Returned
    /\ UNCHANGED <<schedVars, groupVars, scriptVars, restVars>>

\* recipes.py:64-89: Recipes.resolve_derived().  When the sort fails the
\* store is as it was, or holds the recipes instantiated before the error
\* came (the sort may fail before or after it has given the placed nodes).
ResolveDerived ==
    /\ IF new_derived = <<>>
       THEN /\ r_result' = Returned
            /\ UNCHANGED <<recipes, new_derived>>
       ELSE \E k \in IF TopoFails THEN {0, Len(TopoOrder)} ELSE {Len(TopoOrder)} :
              LET st == Instantiate(TopoOrder, k, 1,
                            [recipes |-> recipes, new_derived |-> new_derived,
                             raised |-> FALSE])
              IN  /\ recipes' = st.recipes
                  /\ new_derived' = st.new_derived
                  /\ r_result' = ResolveEnds(TopoFails, st.raised)
    /\ UNCHANGED <<schedVars, groupVars, scriptVars, restVars>>

NextRecipes ==
    \/ \E name \in RecipeNames, defined_in \in Origins : Add(name, defined_in)
    \/ \E name \in RecipeNames, defined_in \in Origins,
          extends \in RecipeNames \cup {None} :
            AddDerived(name, defined_in, extends)
    \/ ResolveDerived

SpecRecipes == InitRecipes /\ [][NextRecipes]_vars

\* ============================================== SpecInherit: Recipe.inherit

\* The step type names a recipe may use, the ids a step may carry, and the
\* mixers.
StepNames == {"add_basemap", "add_grib"}
StepIds == {"s1", "s2"}
MixerNames == {"default", "other"}

\* Longest step list of a parent recipe.
MaxSteps == 2

\* mixers.get_steps(mixer) (arkimapslib/mixers.py): the step types the mixer
\* provides, by name.
get_steps(mixer) == IF mixer = "default" THEN StepNames ELSE {"add_basemap"}

\* The argument maps of a recipe step, and the change-sets written for one.
StepArgs == {<<>>, [params |-> "p1"], [params |-> "p1", grib |-> "g1"]}
Patches == {<<>>, [params |-> "p2"], [grib |-> "g2"]}

\* recipes.py:105-109: RecipeStep(name, step, args, id); the step class is
\* the one the mixer gives for the name.
RecipeStep(name, args, id) == [name |-> name, args |-> args, id |-> id]

\* dict d updated with the entries of e.
Update(d, e) ==
    [k \in (DOMAIN d) \cup (DOMAIN e) |-> IF k \in DOMAIN e THEN e[k] ELSE d[k]]

\* Step.apply_change(res, change) (arkimapslib/steps.py), the default rule of
\* spec.md section 4.1: an entry of the change-set replaces the whole entry of
\* the same key.
apply_change(res, change) == Update(res, change)

\* derive() without its `if self.id is not None: res["id"] = self.id`.
deriveLosingId(rs) == Put(rs.args, "step", rs.name)

\* recipes.py:117-125: RecipeStep.derive().
derive(rs) ==
    LET res == Put(rs.args, "step", rs.name)
    IN  IF rs.id # None THEN Put(res, "id", rs.id) ELSE res

\* recipes.py:127-137: RecipeStep.change(change).
change(rs, ch) ==
    LET res == Put(apply_change(rs.args, ch), "step", rs.name)
    IN  IF rs.id # None THEN Put(res, "id", rs.id) ELSE res

\* recipes.py:176-186: the loop of Recipe.__init__ over data["recipe"] from
\* position i on.  st = [steps, raised].
RECURSIVE ParseSteps(_, _, _, _)
ParseSteps(raw, step_collection, i, st) ==
    IF i > Len(raw) THEN st
    ELSE LET d == raw[i]
         IN  IF "step" \notin DOMAIN d
             THEN [st EXCEPT !.raised = TRUE]    \* no 'step' name
             ELSE IF d.step \notin step_collection
             THEN [st EXCEPT !.raised = TRUE]    \* step not found in mixer
             ELSE ParseSteps(raw, step_collection, i + 1,
                     [st EXCEPT !.steps = Append(@,
                         RecipeStep(d.step, Pop(Pop(d, "step"), "id"),
                                    IF "id" \in DOMAIN d THEN d.id ELSE None))])

\* recipes.py:158-186: Recipe(name, defined_in, data), as far as the mixer
\* and the steps go.
RecipeInit(mixer, raw) ==
    LET st == ParseSteps(raw, get_steps(mixer), 1, [steps |-> <<>>, raised |-> FALSE])
    IN  [raised |-> st.raised, mixer |-> mixer, steps |-> st.steps]

\* recipes.py:188-210: Recipe.inherit(name, defined_in, parent, data).
RecipeInherit(parent, data) ==
    LET changes == data.change
        mixer == IF data.mixer = None THEN parent.mixer ELSE data.mixer
        raw == [i \in 1 .. Len(parent.steps) |->
                   IF parent.steps[i].id \in DOMAIN changes
                   THEN change(parent.steps[i], changes[parent.steps[i].id])
                   ELSE derive(parent.steps[i])]
    IN  RecipeInit(mixer, raw)

\* The maps from some of the keys K to values of V.
PartialMaps(K, V) == UNION {[D -> V] : D \in SUBSET K}

\* A parent recipe as Recipe.__init__ made it (every step is one of its
\* mixer's), and a derived definition: a mixer of its own or none, and
\* change-sets for some ids.
InitInherit ==
    /\ \E mixer \in MixerNames :
         \E steps \in SeqsUpTo([name : get_steps(mixer), args : StepArgs,
                                id : StepIds \cup {None}], MaxSteps) :
            i_parent = [mixer |-> mixer, steps |-> steps]
    /\ i_data \in [mixer : MixerNames \cup {None}, change : PartialMaps(StepIds, Patches)]
    /\ i_result = [raised |-> FALSE, mixer |-> None, steps |-> <<>>]
    /\ i_pc = "call"
    /\ IdleRender /\ IdleGroups /\ IdleScript /\ IdleRecipes
    /\ IdleSteps /\ IdleSummary /\ IdleOne /\ IdleLate

InheritCall ==
    /\ i_pc = "call"
    /\ i_result' = RecipeInherit(i_parent, i_data)
    /\ i_pc' = "done"
    /\ UNCHANGED <<i_parent, i_data>>
    /\ UNCHANGED <<schedVars, groupVars, scriptVars, recipeVars>>
    /\ UNCHANGED <<stepVars, summaryVars, oneVars, lateVars>>

NextInherit == InheritCall

SpecInherit == InitInherit /\ [][NextInherit]_vars

\* C12: a recipe made by Recipe.inherit has as many steps as its parent, with
\* the parent's step type and id at every position; a step whose id is not in
\* the change-set has the parent step's arguments, a step whose id is in it
\* has the change-set applied over the parent step's arguments.  A derived
\* definition that keeps the parent's mixer always gives a recipe.
C12_InheritKeepsStructure ==
    i_pc = "done" =>
        /\ i_data.mixer \in {None, i_parent.mixer} => ~i_result.raised
        /\ ~i_result.raised =>
              /\ Len(i_result.steps) = Len(i_parent.steps)
              /\ \A i \in 1 .. Len(i_parent.steps) :
                    LET p == i_parent.steps[i]
                        c == i_result.steps[i]
                    IN  /\ c.name = p.name
                        /\ c.id = p.id
                        /\ c.args = IF p.id \in DOMAIN i_data.change
                                    THEN Update(p.args, i_data.change[p.id])
                                    ELSE p.args

\* C12's case: a recipe inherited from a parent of two steps, one changed by
\* a change-set that replaces one of its arguments, the other carried over.
C12_Witness ==
    /\ i_pc = "done"
    /\ ~i_result.raised
    /\ Len(i_parent.steps) = 2
    /\ \E i, j \in 1 .. 2 :
          /\ i_parent.steps[i].id \in DOMAIN i_data.change
          /\ i_result.steps[i].args # i_parent.steps[i].args
          /\ i_parent.steps[i].args # <<>>
          /\ i_parent.steps[j].id \notin DOMAIN i_data.change

\* ================================ SpecSteps: Step.compile_args, Step.__init__

\* Step classes of steps.py: three that consume an input, one with class
\* defaults, one with none.
InputSteps == {"AddGrib", "AddUserBoundaries", "AddGeopoints"}
StepClasses == InputSteps \cup {"AddCoastlinesBg", "AddBasemap"}

\* steps.py:93-97, 16: the class attribute `defaults`: a dict, or None
\* (is_none).
defaults(cls) ==
    IF cls = "AddCoastlinesBg"
    THEN [is_none |-> FALSE, items |-> [params |-> "background"]]
    ELSE [is_none |-> TRUE, items |-> <<>>]

\* steps.py:211, 255, 298: the argument that names the step's input.
InputKey(cls) ==
    IF cls = "AddGrib" THEN "grib"
    ELSE IF cls = "AddUserBoundaries" THEN "shape"
    ELSE "points"

\* The keys recipes and flavours give to a step of the class, and the values:
\* input names, or None (a null of the YAML file).
ArgKeys(cls) == {IF cls \in InputSteps THEN InputKey(cls) ELSE "skip", "params"}
ArgValues == {"t2m", "tp", None}

\* dict.get(k): the value, None without the key.
Get(d, k) == IF k \in DOMAIN d THEN d[k] ELSE None

\* dict with setdefault(k, v) called for every entry of e.
SetDefaults(d, e) ==
    [k \in (DOMAIN d) \cup (DOMAIN e) |-> IF k \in DOMAIN d THEN d[k] ELSE e[k]]

\* compile_args letting the flavour's options override the recipe's args.
compile_args_flavour_first(class_defaults, options, args) ==
    LET res == SetDefaults(options, args)
    IN  IF ~class_defaults.is_none THEN SetDefaults(res, class_defaults.items) ELSE res

\* steps.py:38-56: Step.compile_args(step_config, args), on a class whose
\* `defaults` is class_defaults and with options = step_config.options.
compile_args(class_defaults, options, args) ==
    LET res == SetDefaults(args, options)
    IN  IF ~class_defaults.is_none THEN SetDefaults(res, class_defaults.items) ELSE res

\* The input lookup without its None check.
LookupInputUnchecked(sources, input_name) == [raised |-> FALSE]

\* steps.py:212-214, 256-258, 299-301: sources.get(input_name) and the
\* KeyError raised when it gives None.
LookupInput(sources, input_name) == [raised |-> input_name \notin sources]

\* steps.py:18-24 and 205-215, 249-259, 292-302: cls(step, step_config,
\* params, sources).
StepInit(cls, options, args, sources) ==
    LET params == compile_args(defaults(cls), options, args)
        input_name == Get(params, InputKey(cls))
    IN  IF cls \in InputSteps /\ LookupInput(sources, input_name).raised
        THEN [raised |-> TRUE, params |-> <<>>,
              missing |-> input_name, available |-> sources]
        ELSE [raised |-> FALSE, params |-> params,
              missing |-> None, available |-> {}]

\* steps.py:58-63, 235-242, 278-285, 314-320: cls.get_input_names(step_config,
\* args) with options = step_config.options: AddGrib and AddUserBoundaries
\* read the compiled arguments, AddGeopoints the recipe's args.
get_input_names(cls, options, args) ==
    LET name == IF cls \in {"AddGrib", "AddUserBoundaries"}
                THEN Get(compile_args(defaults(cls), options, args), InputKey(cls))
                ELSE IF cls = "AddGeopoints"
                THEN Get(args, "points")
                ELSE None
    IN  IF name # None THEN {name} ELSE {}

InitSteps ==
    /\ s_cls \in StepClasses
    /\ s_defaults = defaults(s_cls)
    /\ s_args \in PartialMaps(ArgKeys(s_cls), ArgValues)
    /\ s_options \in PartialMaps(ArgKeys(s_cls), ArgValues)
    /\ s_sources \in {{}, {"t2m"}, {"t2m", "tp"}}
    /\ s_result = [raised |-> FALSE, params |-> <<>>, missing |-> None, available |-> {}]
    /\ s_pc = "call"
    /\ s_names = [called |-> FALSE, names |-> {}]
    /\ IdleRender /\ IdleGroups /\ IdleScript /\ IdleRecipes
    /\ IdleInherit /\ IdleSummary /\ IdleOne /\ IdleLate

\* cls.compile_args(step_config, args).
CompileArgs ==
    /\ s_pc = "call"
    /\ s_result' = [raised |-> FALSE,
                    params |-> compile_args(s_defaults, s_options, s_args),
                    missing |-> None, available |-> {}]
    /\ s_pc' = "compiled"
    /\ UNCHANGED <<s_cls, s_defaults, s_args, s_options, s_sources, s_names>>
    /\ UNCHANGED <<schedVars, groupVars, scriptVars, recipeVars>>
    /\ UNCHANGED <<inheritVars, summaryVars, oneVars, lateVars>>

\* cls.get_input_names(step_config, args), as the order builder calls it
\* before it constructs the steps.
GetInputNames ==
    /\ s_pc = "call"
    /\ s_names' = [called |-> TRUE, names |-> get_input_names(s_cls, s_options, s_args)]
    /\ s_pc' = "named"
    /\ UNCHANGED <<s_cls, s_defaults, s_args, s_options, s_sources, s_result>>
    /\ UNCHANGED <<schedVars, groupVars, scriptVars, recipeVars>>
    /\ UNCHANGED <<inheritVars, summaryVars, oneVars, lateVars>>

\* cls(step, step_config, args, sources).
Construct ==
    /\ s_pc \in {"call", "named"}
    /\ s_result' = StepInit(s_cls, s_options, s_args, s_sources)
    /\ s_pc' = "constructed"
    /\ UNCHANGED <<s_cls, s_defaults, s_args, s_options, s_sources, s_names>>
    /\ UNCHANGED <<schedVars, groupVars, scriptVars, recipeVars>>
    /\ UNCHANGED <<inheritVars, summaryVars, oneVars, lateVars>>

NextSteps == CompileArgs \/ GetInputNames \/ Construct

SpecSteps == InitSteps /\ [][NextSteps]_vars

\* The keys of the class defaults.
DefaultKeys == IF s_defaults.is_none THEN {} ELSE DOMAIN s_defaults.items

\* C15: compile_args returns exactly the keys of the three layers; a key of
\* the recipe args has the recipe's value, a key only the flavour options
\* have has the flavour's value, a key only the class defaults have has the
\* class's value.
C15_CompileArgsLayers ==
    s_pc = "compiled" =>
        /\ DOMAIN s_result.params = (DOMAIN s_args) \cup (DOMAIN s_options) \cup DefaultKeys
        /\ \A k \in DOMAIN s_result.params :
              s_result.params[k] =
                  IF k \in DOMAIN s_args THEN s_args[k]
                  ELSE IF k \in DOMAIN s_options THEN s_options[k]
                  ELSE s_defaults.items[k]

\* C15's case: the three layers meet: the recipe and the flavour disagree on
\* one key, and another key comes from the class defaults alone.
C15_Witness ==
    /\ s_pc = "compiled"
    /\ \E k \in (DOMAIN s_args) \cap (DOMAIN s_options) : s_args[k] # s_options[k]
    /\ \E k \in DefaultKeys : k \notin (DOMAIN s_args) \cup (DOMAIN s_options)

\* The input name the step ends up with: the recipe's, else the flavour's,
\* else the class's, else None.
EffectiveInput ==
    LET k == InputKey(s_cls)
    IN  IF k \in DOMAIN s_args THEN s_args[k]
        ELSE IF k \in DOMAIN s_options THEN s_options[k]
        ELSE IF k \in DefaultKeys THEN s_defaults.items[k]
        ELSE None

\* C16: constructing an AddGrib, AddUserBoundaries or AddGeopoints step whose
\* effective input name is not among the sources raises the not-found error,
\* which names that input and lists the sources; no step results.
C16_MissingInputRaises ==
    (/\ s_pc = "constructed"
     /\ s_cls \in InputSteps
     /\ EffectiveInput \notin s_sources)
    => /\ s_result.raised
       /\ s_result.missing = EffectiveInput
       /\ s_result.available = s_sources
       /\ s_result.params = <<>>

\* C16's case: the flavour's option names an input the sources lack, the
\* recipe being silent on it, while other sources are available.
C16_Witness ==
    /\ s_pc = "constructed"
    /\ s_cls \in InputSteps
    /\ InputKey(s_cls) \notin DOMAIN s_args
    /\ EffectiveInput = "tp"
    /\ s_sources = {"t2m"}
    /\ s_result.raised

\* The input name the constructor of the step looks up in the sources
\* (steps.py:211-212, 255-256, 298-299).
LookedUp == Get(compile_args(defaults(s_cls), s_options, s_args), InputKey(s_cls))

\* C30: the input name the constructor of an input-consuming step looks up in
\* the sources is among the names get_input_names returned for the same
\* options and args, also when only the flavour's options give it.
C30_LookupIsReported ==
    (/\ s_pc = "constructed"
     /\ s_names.called
     /\ s_cls \in InputSteps
     /\ LookedUp # None)
    => LookedUp \in s_names.names

\* ======================================= SpecSummary: Order.summarize_orders

\* Longest list of orders given to summarize_orders.
MaxSummaryOrders == 3

\* A legend descriptor that is an empty dict: not None, and false in a test.
EmptyDict == "{}"

\* Reference times (datetime values of whole seconds: a date and a time of
\* day), two of one day and one of the next.
RefTimes == {[ymd |-> 1, hms |-> 0], [ymd |-> 1, hms |-> 12], [ymd |-> 2, hms |-> 0]}

\* A key format that shows the date alone.
strftime_date_only(reftime) == <<"%Y-%m-%d", reftime.ymd, "%H:%M-%S", 0>>

\* orders.py:131: reftime.strftime("%Y-%m-%d %H:%M-%S"), the text that shows
\* the date and the time of day.
strftime(reftime) == <<"%Y-%m-%d", reftime.ymd, "%H:%M-%S", reftime.hms>>

\* What an order brings to the summary beside its flavour, recipe and
\* reference time: its forecast step, the names of its input files, its
\* legend descriptor and its render time.
Payloads ==
    {[step |-> 0,  input_files |-> {"t2m"},       legend_info |-> None,      render_time_ns |-> 1],
     [step |-> 12, input_files |-> {"tp"},        legend_info |-> "L1",      render_time_ns |-> 2],
     [step |-> 12, input_files |-> {"t2m", "tp"}, legend_info |-> EmptyDict, render_time_ns |-> 4],
     [step |-> 0,  input_files |-> {"sp"},        legend_info |-> "L2",      render_time_ns |-> 8]}

\* orders.py:20-64: the fields of an Order that summarize_orders reads.
SummaryOrders ==
    {[flavour_name |-> "default", recipe_name |-> r, reftime |-> rt, step |-> p.step,
      input_files |-> p.input_files, legend_info |-> p.legend_info,
      render_time_ns |-> p.render_time_ns] :
        r \in {"t2m", "tp1h"}, rt \in RefTimes, p \in Payloads}

\* The keys of a defaultdict filled by appending the i-th item under
\* keys[i]: the distinct keys, in the order they first come.
RECURSIVE KeysInOrder(_)
KeysInOrder(keys) ==
    IF keys = <<>> THEN <<>>
    ELSE LET before == KeysInOrder(SubSeq(keys, 1, Len(keys) - 1))
             k == keys[Len(keys)]
         IN  IF k \in Range(before) THEN before ELSE Append(before, k)

\* Python's sorted() of a set of strings or of integers.
NameRank(n) == IF n = "sp" THEN 1 ELSE IF n = "t2m" THEN 2 ELSE 3
SortedNames(S) ==
    CHOOSE q \in [1 .. Cardinality(S) -> S] :
        /\ Range(q) = S
        /\ \A i, j \in 1 .. Cardinality(S) : i < j => NameRank(q[i]) < NameRank(q[j])
SortedInts(S) ==
    CHOOSE q \in [1 .. Cardinality(S) -> S] :
        /\ Range(q) = S
        /\ \A i, j \in 1 .. Cardinality(S) : i < j => q[i] < q[j]

\* orders.py:120: `if order.legend_info:`; None and an empty dict are false.
Truthy(v) == v \notin {None, EmptyDict}

\* orders.py:113-122: the loop over the orders of one reference time, from
\* position i on.  st = [inputs, steps, legend_info, render_time_ns].
RECURSIVE SummarizeLoop(_, _, _)
SummarizeLoop(orders, i, st) ==
    IF i > Len(orders) THEN st
    ELSE LET order == orders[i]
         IN  SummarizeLoop(orders, i + 1,
                [inputs |-> st.inputs \cup order.input_files,
                 steps |-> st.steps \cup {order.step},
                 legend_info |-> IF Truthy(order.legend_info)
                                 THEN order.legend_info ELSE st.legend_info,
                 render_time_ns |-> st.render_time_ns + order.render_time_ns])

\* orders.py:113-130: record_rt of the orders of one reference time.
RecordRt(orders) ==
    LET st == SummarizeLoop(orders, 1,
                 [inputs |-> {}, steps |-> {}, legend_info |-> None,
                  render_time_ns |-> 0])
    IN  [inputs |-> SortedNames(st.inputs),
         steps |-> SortedInts(st.steps),
         legend_info |-> st.legend_info,
         time_ns |-> st.render_time_ns]

\* orders.py:108-131: record["reftimes"] filled for the first k reference
\* times of by_rt.
RECURSIVE RefTimeRecords(_, _, _)
RefTimeRecords(orders_fr, by_rt, k) ==
    IF k = 0 THEN <<>>
    ELSE Put(RefTimeRecords(orders_fr, by_rt, k - 1),
             strftime(by_rt[k]),
             RecordRt(SelectSeq(orders_fr, LAMBDA o : o.reftime = by_rt[k])))

\* orders.py:87-135: Order.summarize_orders(kitchen, orders); the flavour
\* and the recipe of a record are given by name.
summarize_orders(orders) ==
    LET by_fr == KeysInOrder([i \in 1 .. Len(orders) |->
                        <<orders[i].flavour_name, orders[i].recipe_name>>])
    IN  [g \in 1 .. Len(by_fr) |->
            LET orders_fr == SelectSeq(orders,
                    LAMBDA o : <<o.flavour_name, o.recipe_name>> = by_fr[g])
                by_rt == KeysInOrder([i \in 1 .. Len(orders_fr) |-> orders_fr[i].reftime])
            IN  [flavour |-> by_fr[g][1],
                 recipe |-> by_fr[g][2],
                 reftimes |-> RefTimeRecords(orders_fr, by_rt, Len(by_rt))]]

InitSummary ==
    /\ o_orders \in SeqsUpTo(SummaryOrders, MaxSummaryOrders)
    /\ o_result = <<>>
    /\ o_pc = "call"
    /\ IdleRender /\ IdleGroups /\ IdleScript /\ IdleRecipes
    /\ IdleInherit /\ IdleSteps /\ IdleOne /\ IdleLate

SummarizeCall ==
    /\ o_pc = "call"
    /\ o_result' = summarize_orders(o_orders)
    /\ o_pc' = "done"
    /\ UNCHANGED o_orders
    /\ UNCHANGED <<schedVars, groupVars, scriptVars, recipeVars>>
    /\ UNCHANGED <<inheritVars, stepVars, oneVars, lateVars>>

NextSummary == SummarizeCall

SpecSummary == InitSummary /\ [][NextSummary]_vars

\* ------------------------------------------- properties of SpecSummary

\* The (flavour, recipe) pairs of the orders, and the reference times of the
\* orders of one pair.
PairsOf == {<<o_orders[i].flavour_name, o_orders[i].recipe_name>> : i \in 1 .. Len(o_orders)}
RefTimesOf(pair) ==
    {o_orders[i].reftime : i \in {j \in 1 .. Len(o_orders) :
        <<o_orders[j].flavour_name, o_orders[j].recipe_name>> = pair}}

\* The positions of the orders of one (flavour, recipe, reftime) group.
GroupOf(pair, rt) ==
    {i \in 1 .. Len(o_orders) :
        /\ <<o_orders[i].flavour_name, o_orders[i].recipe_name>> = pair
        /\ o_orders[i].reftime = rt}

\* The records returned for a pair.
RecordsOf(pair) ==
    {g \in 1 .. Len(o_result) : <<o_result[g].flavour, o_result[g].recipe>> = pair}

\* The render times of the orders at the positions I, summed.
RECURSIVE SumTimes(_)
SumTimes(I) ==
    IF I = {} THEN 0
    ELSE LET i == CHOOSE j \in I : TRUE
         IN  o_orders[i].render_time_ns + SumTimes(I \ {i})

\* The time_ns of the reference-time records at the places P = {<<g, key>>},
\* summed.
RECURSIVE SumRecords(_)
SumRecords(P) ==
    IF P = {} THEN 0
    ELSE LET p == CHOOSE q \in P : TRUE
         IN  o_result[p[1]].reftimes[p[2]].time_ns + SumRecords(P \ {p})

IncreasingNames(q) == \A a, b \in 1 .. Len(q) : a < b => NameRank(q[a]) < NameRank(q[b])
IncreasingInts(q) == \A a, b \in 1 .. Len(q) : a < b => q[a] < q[b]

LastLegend(I) ==
    LET with == {i \in I : o_orders[i].legend_info # None}
    IN  IF with = {} THEN None
        ELSE o_orders[CHOOSE i \in with : \A j \in with : j <= i].legend_info

\* C18: the legend descriptor of a group is the legend_info of the last order
\* of the group, in input order, whose legend_info is not null; it is null
\* only when every order of the group has a null legend_info.
C18_LegendLastNonNull ==
    o_pc = "done" =>
        \A pair \in PairsOf : \A rt \in RefTimesOf(pair) : \A g \in RecordsOf(pair) :
            /\ strftime(rt) \in DOMAIN o_result[g].reftimes
            /\ o_result[g].reftimes[strftime(rt)].legend_info
                 = LastLegend(GroupOf(pair, rt))

\* ========================================= SpecRenderOne: Renderer.render_one

\* Most outputs a run of render_one calls appends to the orders.
MaxRenders == 2

\* subprocess.run without check=True.
CheckIgnored(exit) == FALSE

\* render.py:212: subprocess.run(..., check=True) raises CalledProcessError
\* when the child's exit status is not zero.
CheckRaises(exit) == exit # 0

\* render.py:213-221: from json.loads on.  What render_one does to the
\* orders for a child that exited with status 0 having written stdout:
\* [outputs, render_time_ns, raised, order].
SetRenderInfoOne(obn, stdout) ==
    LET unchanged == [outputs |-> outputs, render_time_ns |-> render_time_ns,
                      raised |-> TRUE, order |-> 0]
    IN  IF ~Parses(stdout) THEN unchanged                        \* json.loads
        ELSE IF stdout.outputs = <<>> THEN unchanged               \* outputs[0]
        ELSE LET output == stdout.outputs[1]
             IN  IF output.name \notin DOMAIN obn THEN unchanged   \* orders_by_name[...]
                 ELSE LET order == obn[output.name]
                          appended == [unchanged EXCEPT !.outputs[order] = Append(@, output)]
                      IN  IF output.name \notin DOMAIN stdout.timings
                          THEN appended                           \* timings[...]
                          ELSE [appended EXCEPT
                                   !.render_time_ns[order] = @ + stdout.timings[output.name],
                                   !.raised = FALSE,
                                   !.order = order]

\* A Renderer and n orders: fresh, or after Renderer.render has written the
\* scripts of the orders in groups of count (render.py:128-130); no script
\* file exists yet.
InitRenderOne ==
    /\ \E n \in 1 .. MaxOrders :
          /\ outputs = [o \in 1 .. n |-> <<>>]
          /\ render_time_ns = [o \in 1 .. n |-> 0]
          /\ fs = [path |-> [o \in 1 .. n |-> 0], data |-> <<>>]
          /\ \/ orders_by_name = <<>>
             \/ \E count \in 1 .. MaxCount :
                   orders_by_name = NamesAfter(groups(OrderList(n), count),
                                               Len(groups(OrderList(n), count)))
    /\ batches = <<>>
    /\ max_tasks = 1
    /\ cwd_is_workdir = TRUE
    /\ queue = <<>>
    /\ pending = {}
    /\ done = {}
    /\ pc = "idle"
    /\ task = <<>>
    /\ rendered = <<>>
    /\ archive = {}
    /\ workfiles = {}
    /\ launches = <<>>
    /\ fs_before = <<>>
    /\ w_orders = <<>>
    /\ w_result = [script_file |-> 0, raised |-> FALSE]
    /\ w_pc = "idle"
    /\ one_order = 0
    /\ one_result = [kind |-> "none", order |-> 0, child |-> NoChild,
                     before |-> [outputs |-> <<>>, render_time_ns |-> <<>>]]
    /\ IdleGroups /\ IdleRecipes /\ IdleInherit /\ IdleSteps /\ IdleSummary /\ IdleLate

\* The outputs appended to all the orders together.
RECURSIVE TotalOutputs(_)
TotalOutputs(n) == IF n = 0 THEN 0 ELSE Len(outputs[n]) + TotalOutputs(n - 1)

\* render.py:209-222: render_one(order).  one_result keeps, with the way the
\* call ended, how the child ended and what the orders were before the call.
RenderOne(order) ==
    /\ one_result.kind \in {"none", "returned"}
    /\ TotalOutputs(Len(outputs)) < MaxRenders
    /\ \E run \in ChildRuns(<<order>>) :
         LET written == WriteLoop(<<order>>, python_code(<<order>>), 1,
                                  [fs |-> fs, script_file |-> 0, raised |-> FALSE])
             obn == NameEntries(orders_by_name, <<order>>)
             r == IF CheckRaises(run.exit)
                  THEN [outputs |-> outputs, render_time_ns |-> render_time_ns,
                        raised |-> TRUE, order |-> 0]
                  ELSE SetRenderInfoOne(obn, run.stdout)
         IN  /\ fs' = written.fs
             /\ orders_by_name' = obn
             /\ workfiles' = workfiles \cup Produced(run.stdout)
             /\ outputs' = r.outputs
             /\ render_time_ns' = r.render_time_ns
             /\ one_result' = [kind |-> IF r.raised THEN "raised" ELSE "returned",
                               order |-> r.order,
                               child |-> run,
                               before |-> [outputs |-> outputs,
                                           render_time_ns |-> render_time_ns]]
    /\ one_order' = order
    /\ UNCHANGED <<batches, max_tasks, cwd_is_workdir, queue, pending, done, pc,
                   task, rendered, archive, launches>>
    /\ UNCHANGED <<fs_before, w_orders, w_result, w_pc>>
    /\ UNCHANGED <<groupVars, recipeVars, inheritVars, stepVars, summaryVars, lateVars>>

NextRenderOne == \E order \in Orders : RenderOne(order)

SpecRenderOne == InitRenderOne /\ [][NextRenderOne]_vars

\* The child of a render_one call failed: non-zero exit, or an output that
\* is not the summary, or a summary without the order's timing.
OneChildFailed(run) ==
    \/ run.exit # 0
    \/ ~Parses(run.stdout)
    \/ 0 \notin DOMAIN run.stdout.timings

\* C20: render_one raises whenever its child failed, and then, for a non-zero
\* exit or an unparseable output, has touched no order; when the child
\* succeeded and reported an output it returns the order it was given, with
\* the first reported output appended and the render time increased by the
\* reported timing, the other orders being as they were.
C20_RenderOnePropagates ==
    one_result.kind # "none" =>
        LET run == one_result.child
            before == one_result.before
        IN  /\ OneChildFailed(run) => one_result.kind = "raised"
            /\ (run.exit # 0 \/ ~Parses(run.stdout)) =>
                  outputs = before.outputs /\ render_time_ns = before.render_time_ns
            /\ one_result.kind = "returned" => one_result.order = one_order
            /\ (~OneChildFailed(run) /\ run.stdout.outputs # <<>>) =>
                  /\ one_result.kind = "returned"
                  /\ outputs = [before.outputs EXCEPT
                                   ![one_order] = Append(@, run.stdout.outputs[1])]
                  /\ render_time_ns = [before.render_time_ns EXCEPT
                                          ![one_order] = @ + run.stdout.timings[0]]

\* C20's case: after a render_one call that returned its order with one
\* output, a second call on the same order, whose child printed the summary
\* and exited with a non-zero status, has raised.
C20_Witness ==
    /\ one_result.kind = "raised"
    /\ one_result.child.exit # 0
    /\ Parses(one_result.child.stdout)
    /\ Len(outputs[one_order]) = 1
    /\ render_time_ns[one_order] = one_order
    /\ Len(fs.data) = 2

\* ================================ SpecGenerate: Renderer.make_python_renderer

\* Most calls of make_python_renderer on one Renderer, and the orders its
\* batches are made of.
MaxCalls == 3
MaxGenOrders == 2

\* render.py:88-105: make_python_renderer(orders) on a Renderer whose
\* orders_by_name is obn: the text returned, and orders_by_name after the
\* assignments of render.py:99.
make_python_renderer(obn, orders) ==
    [text |-> python_code(orders), orders_by_name |-> NameEntries(obn, orders)]

\* A Renderer as Renderer.__init__ leaves it (render.py:56-67): no name yet.
InitGenerate ==
    /\ IdleRender /\ IdleGroups /\ IdleScript /\ IdleRecipes
    /\ IdleInherit /\ IdleSteps /\ IdleSummary /\ IdleOne
    /\ m_log = <<>>
    /\ m_before = <<>>
    /\ IdlePickle /\ IdleShared

\* self.make_python_renderer(orders) for a batch of distinct orders.
MakePythonRenderer(orders) ==
    /\ Len(m_log) < MaxCalls
    /\ LET r == make_python_renderer(orders_by_name, orders)
       IN  /\ orders_by_name' = r.orders_by_name
           /\ m_log' = Append(m_log, [orders |-> orders, text |-> r.text])
    /\ m_before' = orders_by_name
    /\ UNCHANGED <<batches, max_tasks, cwd_is_workdir, queue, pending, done, pc,
                   task, outputs, render_time_ns, rendered, archive, workfiles,
                   launches>>
    /\ UNCHANGED <<groupVars, scriptVars, recipeVars>>
    /\ UNCHANGED <<inheritVars, stepVars, summaryVars, oneVars, pickleVars, sharedVars>>

NextGenerate == \E orders \in DistinctSeqs(1 .. MaxGenOrders) : MakePythonRenderer(orders)

SpecGenerate == InitGenerate /\ [][NextGenerate]_vars

\* C21: a call of make_python_renderer leaves the name-to-Order lookup map as
\* it was, and two calls with the same batch return the same text whatever
\* was generated before or between them.
C21_GeneratorIsPure ==
    m_log # <<>> =>
        /\ orders_by_name = m_before
        /\ \A i, j \in 1 .. Len(m_log) :
              m_log[i].orders = m_log[j].orders => m_log[i].text = m_log[j].text

\* ====================== SpecPickle: Order.__getstate__ / Order.__setstate__

\* The flavours and recipes an order may be made from (arkimapslib/flavours.py,
\* recipes.py:158-171): objects with a name, the recipe with a mixer.
FlavourObjects == {[name |-> "default"], [name |-> "ita"]}
RecipeObjects == {[name |-> "t2m", mixer |-> "default"], [name |-> "tp1h", mixer |-> "other"]}

\* logging.getLogger(name): the logger of that name.
getLogger(name) == <<"logger", name>>

\* orders.py:20-64: the __dict__ of Order(flavour=..., recipe=..., ...).
OrderInit(flavour, recipe, input_files, relpath, basename, instant, order_steps, output_options, log) ==
    [flavour |-> flavour,
     recipe |-> recipe,
     mixer |-> recipe.mixer,
     input_files |-> input_files,
     relpath |-> relpath,
     basename |-> basename,
     flavour_name |-> flavour.name,
     recipe_name |-> recipe.name,
     instant |-> instant,
     output |-> None,
     output_options |-> output_options,
     log |-> log,
     order_steps |-> order_steps,
     legend_info |-> None,
     render_time_ns |-> 0]

\* __getstate__ deleting from the order's own __dict__ instead of a copy.
getstate_in_place(self) ==
    LET state == Pop(Pop(Pop(self, "log"), "flavour"), "recipe")
    IN  [self |-> state, state |-> state]

\* orders.py:66-73: __getstate__ on an order whose __dict__ is self: the
\* __dict__ afterwards and the state returned.
getstate(self) ==
    LET state == Pop(Pop(Pop(self, "log"), "flavour"), "recipe")
    IN  [self |-> self, state |-> state]

\* orders.py:75-79: __setstate__(state) on an order whose __dict__ is self:
\* the __dict__ afterwards.
setstate(self, state) ==
    LET updated == Update(self, state)
        logged == Put(updated, "log", getLogger(<<"arkimaps.order", updated.basename>>))
    IN  Put(Put(logged, "flavour", None), "recipe", None)

\* An order as the order builder made it and as the render pipeline may have
\* left it: with or without a legend descriptor, an output and render time.
InitPickle ==
    /\ \E flavour \in FlavourObjects, recipe \in RecipeObjects,
          basename \in {"t2m+000", "t2m+012"},
          legend_info \in {None, EmptyDict, "L1"},
          output \in {None, "t2m+000.png"},
          time_ns \in {0, 7} :
          p_order = [OrderInit(flavour, recipe, {"t2m"}, "2021-01-01/t2m", basename,
                               <<"2021-01-01", 12>>, <<"add_basemap", "add_grib">>,
                               <<>>, getLogger("arkimaps.orders"))
                        EXCEPT !.legend_info = legend_info,
                               !.output = output,
                               !.render_time_ns = time_ns]
    /\ p_before = p_order
    /\ p_state = <<>>
    /\ p_new = <<>>
    /\ p_pc = "call"
    /\ IdleRender /\ IdleGroups /\ IdleScript /\ IdleRecipes
    /\ IdleInherit /\ IdleSteps /\ IdleSummary /\ IdleOne
    /\ IdleGen /\ IdleShared

\* state = order.__getstate__().
GetState ==
    /\ p_pc = "call"
    /\ LET r == getstate(p_order)
       IN  /\ p_order' = r.self
           /\ p_state' = r.state
    /\ p_pc' = "state"
    /\ UNCHANGED <<p_before, p_new>>
    /\ UNCHANGED <<schedVars, groupVars, scriptVars, recipeVars>>
    /\ UNCHANGED <<inheritVars, stepVars, summaryVars, oneVars, genVars, sharedVars>>

\* new.__setstate__(state), new being the object the receiving side made
\* without calling __init__ (its __dict__ is empty).
SetState ==
    /\ p_pc = "state"
    /\ p_new' = setstate(p_new, p_state)
    /\ p_pc' = "done"
    /\ UNCHANGED <<p_order, p_before, p_state>>
    /\ UNCHANGED <<schedVars, groupVars, scriptVars, recipeVars>>
    /\ UNCHANGED <<inheritVars, stepVars, summaryVars, oneVars, genVars, sharedVars>>

NextPickle == GetState \/ SetState

SpecPickle == InitPickle /\ [][NextPickle]_vars

\* The attributes that travel with the state and are named by the claim.
TravellingAttributes ==
    {"flavour_name", "recipe_name", "mixer", "input_files", "relpath", "basename",
     "instant", "order_steps", "legend_info", "render_time_ns"}

\* C22: the state taken from an order holds neither its flavour nor its recipe
\* reference; the order it is loaded into has flavour and recipe None and the
\* original's flavour_name, recipe_name, mixer, input_files, relpath,
\* basename, instant, order_steps, legend_info and render_time_ns; the
\* original is not modified and keeps its flavour and recipe.
C22_StateRoundTrip ==
    /\ p_pc \in {"state", "done"} =>
          /\ p_order = p_before
          /\ {"flavour", "recipe"} \subseteq DOMAIN p_order
          /\ p_order.flavour \in FlavourObjects
          /\ p_order.recipe \in RecipeObjects
          /\ {"flavour", "recipe"} \cap DOMAIN p_state = {}
    /\ p_pc = "done" =>
          /\ TravellingAttributes \cup {"flavour", "recipe"} \subseteq DOMAIN p_new
          /\ p_new.flavour = None
          /\ p_new.recipe = None
          /\ \A a \in TravellingAttributes : p_new[a] = p_before[a]

\* C22's case: an order with a legend descriptor and render time has gone
\* through __getstate__ and __setstate__.
C22_Witness ==
    /\ p_pc = "done"
    /\ p_before.legend_info = "L1"
    /\ p_before.render_time_ns > 0
    /\ p_before.flavour.name = "ita"
    /\ p_new.flavour_name = "ita"

\* ============ SpecShared: Recipe.inherit and AddGrib.__init__ on shared dicts

\* The argument maps are dict objects: h_heap[a] is the dict at address a.
\* The value of a "params" entry is the address of the nested dict, 0 for
\* None.  A dict with its nested dict written out is a record
\* [items, params: [kind: "absent" | "none" | "dict", items]].

\* Most calls, of Recipe.inherit and of AddGrib together, on one parent.
MaxSharedCalls == 3

NoParams == [kind |-> "absent", items |-> <<>>]
NullParams == [kind |-> "none", items |-> <<>>]
ParamsDict(items) == [kind |-> "dict", items |-> items]

\* The dict at address a with its nested dict written out.
DeepDict(heap, a) ==
    [items |-> Pop(heap[a], "params"),
     params |-> IF "params" \notin DOMAIN heap[a] THEN NoParams
                ELSE IF heap[a].params = 0 THEN NullParams
                ELSE ParamsDict(heap[heap[a].params])]

\* The heap with new objects for a dict and its nested dict; the dict is the
\* last object.
StoreDict(heap, deep) ==
    IF deep.params.kind = "dict"
    THEN LET nested == Append(heap, deep.params.items)
         IN  Append(nested, Put(deep.items, "params", Len(nested)))
    ELSE IF deep.params.kind = "none"
    THEN Append(heap, Put(deep.items, "params", 0))
    ELSE Append(heap, deep.items)

\* RecipeStep.change applying the change-set to self.args itself.
ChangeObjectInPlace(heap, rs, ch) ==
    [heap |-> [heap EXCEPT ![rs.args] = change([rs EXCEPT !.args = heap[rs.args]], heap[ch])],
     addr |-> rs.args]

\* recipes.py:127-137: RecipeStep.change(change): res = dict(self.args) is a
\* new dict, whose values are the objects self.args refers to.
ChangeObject(heap, rs, ch) ==
    [heap |-> Append(heap, change([rs EXCEPT !.args = heap[rs.args]], heap[ch])),
     addr |-> Len(heap) + 1]

\* recipes.py:117-125: RecipeStep.derive(): res = dict(self.args).
DeriveObject(heap, rs) ==
    [heap |-> Append(heap, derive([rs EXCEPT !.args = heap[rs.args]])),
     addr |-> Len(heap) + 1]

\* recipes.py:203-208: the loop of Recipe.inherit over parent.steps from
\* position i on; changes: id -> address of the change-set.
\* st = [heap, raw], raw the addresses of the step definitions made.
RECURSIVE InheritSteps(_, _, _, _)
InheritSteps(parent, changes, i, st) ==
    IF i > Len(parent) THEN st
    ELSE LET recipe_step == parent[i]
             r == IF recipe_step.id \in DOMAIN changes
                  THEN ChangeObject(st.heap, recipe_step, changes[recipe_step.id])
                  ELSE DeriveObject(st.heap, recipe_step)
         IN  InheritSteps(parent, changes, i + 1,
                 [heap |-> r.heap, raw |-> Append(st.raw, r.addr)])

\* recipes.py:176-186: the loop of Recipe.__init__ over data["recipe"] from
\* position i on: 'step' and 'id' are popped from the definition itself,
\* which becomes the args of the RecipeStep.  st = [heap, steps, raised].
RECURSIVE ParseStepObjects(_, _, _, _)
ParseStepObjects(raw, step_collection, i, st) ==
    IF i > Len(raw) THEN st
    ELSE LET d == st.heap[raw[i]]
         IN  IF "step" \notin DOMAIN d
             THEN [st EXCEPT !.raised = TRUE]
             ELSE IF d.step \notin step_collection
             THEN [st EXCEPT !.raised = TRUE]
             ELSE ParseStepObjects(raw, step_collection, i + 1,
                     [st EXCEPT !.heap[raw[i]] = Pop(Pop(d, "step"), "id"),
                                !.steps = Append(@,
                                    RecipeStep(d.step, raw[i],
                                               IF "id" \in DOMAIN d THEN d.id ELSE None))])

\* recipes.py:188-210: Recipe.inherit(name, defined_in, parent, data) for a
\* parent and a derived definition of the default mixer:
\* [heap, parent, steps, raised].
InheritObjects(heap, parent, changes) ==
    LET made == InheritSteps(parent, changes, 1, [heap |-> heap, raw |-> <<>>])
        parsed == ParseStepObjects(made.raw, get_steps("default"), 1,
                                   [heap |-> made.heap, steps |-> <<>>, raised |-> FALSE])
    IN  [heap |-> parsed.heap, parent |-> parent, steps |-> parsed.steps,
         raised |-> parsed.raised]

\* steps.py:205-222: AddGrib(step, step_config, params, sources), args and
\* options being the addresses of the recipe step's args and of
\* step_config.options, sources giving info.mgrib of each input by name:
\* [heap, raised, made], made the address of self.params.
AddGribInit(heap, args, options, sources) ==
    LET compiled == compile_args(defaults("AddGrib"), heap[options], heap[args])
        input_name == Get(compiled, "grib")
    IN  IF input_name \notin DOMAIN sources
        THEN [heap |-> heap, raised |-> TRUE, made |-> 0]
        ELSE LET mgrib == sources[input_name]
                 own == Append(heap, compiled)
                 self == Len(own)
             IN  IF DOMAIN mgrib = {}
                 THEN [heap |-> own, raised |-> FALSE, made |-> self]
                 ELSE IF "params" \notin DOMAIN compiled \/ compiled.params = 0
                 THEN LET fresh == Append(own, SetDefaults(<<>>, mgrib))
                      IN  [heap |-> [fresh EXCEPT ![self] = Put(@, "params", Len(fresh))],
                           raised |-> FALSE, made |-> self]
                 ELSE [heap |-> [own EXCEPT ![compiled.params] = SetDefaults(@, mgrib)],
                       raised |-> FALSE, made |-> self]

\* The args of the parent's add_grib step, the args of its add_basemap step,
\* the flavour's options for add_grib, and the change-sets of a derived
\* definition, nested dicts written out.
GribArgs ==
    {[items |-> [grib |-> "t2m"], params |-> q] :
        q \in {NoParams, NullParams, ParamsDict(<<>>),
               ParamsDict([contour |-> "on"]),
               ParamsDict([grib_automatic_scaling |-> "off"])}}

BasemapArgs == [items |-> <<>>, params |-> ParamsDict([page_id_line |-> "off"])]

GribOptions ==
    {[items |-> <<>>, params |-> NoParams],
     [items |-> <<>>, params |-> ParamsDict([contour |-> "flavour"])],
     [items |-> [grib |-> "tp"], params |-> NoParams]}

ChangeSets ==
    {<<>>,
     [s1 |-> [items |-> <<>>, params |-> ParamsDict([contour |-> "patched"])]],
     [s2 |-> [items |-> <<>>, params |-> ParamsDict(<<>>)]]}

\* info.mgrib of the files an order may have under an input name: nothing,
\* or the metadata of one of two files.
MgribInfos ==
    {<<>>, [grib_automatic_scaling |-> "a"], [grib_automatic_scaling |-> "b"]}

\* A parent recipe as Recipe.__init__ made it: an add_grib step, with or
\* without id, followed or not by an add_basemap step; and the flavour's
\* options.
InitShared ==
    /\ \E grib \in GribArgs, id \in {"s1", None}, second \in BOOLEAN, opt \in GribOptions :
          LET h1 == StoreDict(<<>>, grib)
              h2 == IF second THEN StoreDict(h1, BasemapArgs) ELSE h1
              h3 == StoreDict(h2, opt)
          IN  /\ h_heap = h3
              /\ h_orig = h3
              /\ h_parent = <<RecipeStep("add_grib", Len(h1), id)>>
                            \o (IF second
                                THEN <<RecipeStep("add_basemap", Len(h2), "s2")>>
                                ELSE <<>>)
              /\ h_options = Len(h3)
    /\ h_derived = <<>>
    /\ h_built = 0
    /\ h_result = [op |-> "none", raised |-> FALSE, before |-> <<>>, parent |-> <<>>,
                   args |-> 0, sources |-> <<>>, made |-> 0]
    /\ IdleRender /\ IdleGroups /\ IdleScript /\ IdleRecipes
    /\ IdleInherit /\ IdleSteps /\ IdleSummary /\ IdleOne
    /\ IdleGen /\ IdlePickle

\* The heap with the change-sets of a derived definition, and their addresses
\* by id.
StoreChanges(heap, data) ==
    IF DOMAIN data = {} THEN [heap |-> heap, changes |-> <<>>]
    ELSE LET stored == StoreDict(heap, data[CHOOSE id \in DOMAIN data : TRUE])
         IN  [heap |-> stored, changes |-> [id \in DOMAIN data |-> Len(stored)]]

\* The objects a call created, as it left them, added to h_orig.
Created(orig, heap) ==
    orig \o SubSeq(heap, Len(orig) + 1, Len(heap))

\* Recipe.inherit(name, defined_in, parent, data) with the change-sets of
\* data, read from a recipe file.
InheritShared(data) ==
    /\ Len(h_derived) + h_built < MaxSharedCalls
    /\ LET loaded == StoreChanges(h_heap, data)
           r == InheritObjects(loaded.heap, h_parent, loaded.changes)
       IN  /\ h_heap' = r.heap
           /\ h_orig' = Created(h_orig, r.heap)
           /\ h_parent' = r.parent
           /\ h_derived' = Append(h_derived, r.steps)
           /\ h_result' = [op |-> "inherit", raised |-> r.raised, before |-> loaded.heap,
                           parent |-> h_parent, args |-> 0, sources |-> <<>>,
                           made |-> 0]
    /\ UNCHANGED <<h_options, h_built>>
    /\ UNCHANGED <<schedVars, groupVars, scriptVars, recipeVars>>
    /\ UNCHANGED <<inheritVars, stepVars, summaryVars, oneVars, genVars, pickleVars>>

\* The add_grib steps of the parent and of the recipes inherited from it.
GribSteps ==
    {h_parent[i].args : i \in {j \in 1 .. Len(h_parent) : h_parent[j].name = "add_grib"}}
    \cup UNION {{h_derived[d][i].args :
                    i \in {j \in 1 .. Len(h_derived[d]) : h_derived[d][j].name = "add_grib"}} :
                d \in 1 .. Len(h_derived)}

\* AddGrib("add_grib", step_config, recipe_step.args, sources) for an order
\* whose input t2m is a file with the given metadata.
ConstructShared(args, mgrib) ==
    /\ Len(h_derived) + h_built < MaxSharedCalls
    /\ LET sources == [t2m |-> mgrib]
           r == AddGribInit(h_heap, args, h_options, sources)
       IN  /\ h_heap' = r.heap
           /\ h_orig' = Created(h_orig, r.heap)
           /\ h_result' = [op |-> "construct", raised |-> r.raised, before |-> h_heap,
                           parent |-> <<>>, args |-> args, sources |-> sources,
                           made |-> r.made]
    /\ h_built' = h_built + 1
    /\ UNCHANGED <<h_parent, h_options, h_derived>>
    /\ UNCHANGED <<schedVars, groupVars, scriptVars, recipeVars>>
    /\ UNCHANGED <<inheritVars, stepVars, summaryVars, oneVars, genVars, pickleVars>>

NextShared ==
    \/ \E data \in ChangeSets : InheritShared(data)
    \/ \E args \in GribSteps, mgrib \in MgribInfos : ConstructShared(args, mgrib)

SpecShared == InitShared /\ [][NextShared]_vars

\* C28: Recipe.inherit leaves the parent as it was: the same steps, each with
\* its type, its id and its argument map, nested 'params' included; this holds
\* for the second recipe inherited from the parent as for the first.
C28_InheritLeavesParent ==
    h_result.op = "inherit" =>
        /\ h_parent = h_result.parent
        /\ \A i \in 1 .. Len(h_parent) :
              DeepDict(h_heap, h_parent[i].args) = DeepDict(h_result.before, h_parent[i].args)

\* C28's case: two recipes were inherited from a parent of two steps and no
\* step was constructed; the last changed the params of the parent's first
\* step, whose args the parent still has.
C28_Witness ==
    /\ h_result.op = "inherit"
    /\ Len(h_derived) = 2
    /\ h_built = 0
    /\ Len(h_parent) = 2
    /\ DeepDict(h_heap, h_parent[1].args).params = ParamsDict([contour |-> "on"])
    /\ DeepDict(h_heap, h_derived[2][1].args).params = ParamsDict([contour |-> "patched"])
    /\ DeepDict(h_heap, h_parent[1].args) = DeepDict(h_orig, h_parent[1].args)

\* What the layers give an add_grib step made from the args at address args:
\* the recipe's args over the flavour's options, as they were made.
Layered(args) == compile_args(defaults("AddGrib"), h_orig[h_options], h_orig[args])

\* C29: constructing an AddGrib step changes no dict that existed before (the
\* recipe step's args, the flavour's options, their nested dicts), and the
\* step's params are the layered values plus, in the nested params, the mgrib
\* metadata of the order's own input file for the keys the layers leave open.
C29_ConstructLeavesArgs ==
    h_result.op = "construct" =>
        /\ \A a \in 1 .. Len(h_result.before) : h_heap[a] = h_result.before[a]
        /\ ~h_result.raised =>
              LET layered == Layered(h_result.args)
                  nested == IF "params" \in DOMAIN layered /\ layered.params # 0
                            THEN h_orig[layered.params] ELSE <<>>
                  mgrib == h_result.sources[layered.grib]
                  made == DeepDict(h_heap, h_result.made)
              IN  /\ made.items = Pop(layered, "params")
                  /\ made.params.items = SetDefaults(nested, mgrib)

\* ------------------------------------------- properties of SpecRecipes

Defined(name) == name \in (DOMAIN recipes) \cup (DOMAIN new_derived)

IsError(r) == r.kind \notin {"ok", "none"}

\* C8: Recipes.add fails with a definition conflict whenever the name exists
\* already, as a concrete recipe or as a pending derived definition, and then
\* leaves both collections as they were; otherwise it inserts the recipe.
C8_AddRejectsDefinedName ==
    [][\A name \in RecipeNames, defined_in \in Origins :
         Add(name, defined_in) =>
            IF Defined(name)
            THEN /\ r_result' = Raised("add: defined twice", None, None)
                 /\ UNCHANGED <<recipes, new_derived>>
            ELSE /\ r_result' = Returned
                 /\ name \in DOMAIN recipes']_vars

\* C9: no name is at once a concrete recipe and a pending derived definition.
C9_NameDefinedOnce == (DOMAIN recipes) \cap (DOMAIN new_derived) = {}

\* C10: add_derived fails when data has no 'extends', when the name is a
\* concrete recipe, or when the name is pending from another origin; the call
\* itself raises, no recipe is instantiated by it, and the concrete recipes
\* and the pending definitions are left as they were.
C10_AddDerivedRejects ==
    [][\A name \in RecipeNames, defined_in \in Origins,
          extends \in RecipeNames \cup {None} :
         (/\ \/ extends = None
             \/ name \in DOMAIN recipes
             \/ /\ name \in DOMAIN new_derived
                /\ new_derived[name].defined_in # defined_in
          /\ AddDerived(name, defined_in, extends))
         => /\ IsError(r_result')
            /\ recipes' = recipes
            /\ new_derived' = new_derived]_vars

\* C10's case: add_derived has just rejected a name that is pending from
\* another origin, nothing being instantiated yet.
C10_Witness ==
    /\ r_result.kind = "add_derived: pending twice"
    /\ r_result.name \in DOMAIN new_derived
    /\ new_derived[r_result.name].defined_in # r_result.defined_in
    /\ recipes = <<>>

\* The names reached from n by following 'extends' through the pending
\* definitions, at most k times.
RECURSIVE ExtendsChain(_, _)
ExtendsChain(n, k) ==
    IF k = 0 \/ n \notin DOMAIN new_derived THEN {}
    ELSE {new_derived[n].extends} \cup ExtendsChain(new_derived[n].extends, k - 1)

\* The pending definition n lies on a derivation cycle.
InCycle(n) == n \in ExtendsChain(n, Cardinality(DOMAIN new_derived))
HasCycle == \E n \in DOMAIN new_derived : InCycle(n)

\* The pending definition n extends a name that is neither concrete nor
\* pending.
MissingParent(n) == n \in DOMAIN new_derived /\ ~Defined(new_derived[n].extends)
HasMissingParent == \E n \in DOMAIN new_derived : MissingParent(n)

\* C11: on an acyclic derivation graph whose 'extends' targets are all
\* concrete or pending names, resolve_derived returns normally, leaves no
\* pending definition, has made every pending name a concrete recipe and has
\* left every concrete recipe in place.
C11_ResolveCompletes ==
    [][(/\ ~HasCycle
        /\ ~HasMissingParent
        /\ ResolveDerived)
       => /\ r_result' = Returned
          /\ new_derived' = <<>>
          /\ \A n \in DOMAIN new_derived : n \in DOMAIN recipes'
          /\ \A n \in DOMAIN recipes :
                n \in DOMAIN recipes' /\ recipes'[n] = recipes[n]]_vars

Running == {b \in Batches : task[b].state = "running"}

\* The orders of batch b.
OrdersOf(b) == {batches[b][i] : i \in 1 .. Len(batches[b])}

RenderedSet == {rendered[i] : i \in 1 .. Len(rendered)}

\* The child's output is the summary of the contract (spec.md section 6):
\* timings for every order of the batch, outputs under the batch's names.
ValidSummary(b) ==
    LET out == task[b].child.stdout
    IN  /\ out.kind = "summary"
        /\ DOMAIN out.timings = Names(batches[b])
        /\ \A i \in 1 .. Len(out.outputs) : out.outputs[i].name \in Names(batches[b])

\* The child of batch b has exited, and how.
Exited(b) == task[b].child.stdout.kind # "none"
ChildFailed(b) == Exited(b) /\ (task[b].child.exit # 0 \/ ~ValidSummary(b))
ChildSucceeded(b) == Exited(b) /\ task[b].child.exit = 0 /\ ValidSummary(b)

\* C1: in every state of the scheduler the number of batches whose task has
\* been created and has not finished is at most the pool size max_tasks.
C1_PoolBound == Cardinality(Running) <= max_tasks

\* C1's case: the pool is full while a batch waits in the queue.
C1_Witness ==
    /\ pc = "wait"
    /\ Cardinality(Running) = max_tasks
    /\ queue # <<>>

\* C2: when render_asyncio returns and exactly one of several batches failed
\* (non-zero exit or malformed summary) while all the others succeeded, the
\* rendered list holds every order of the other batches and no order of the
\* failed batch.
C2_OneFailureIsolated ==
    (/\ pc = "returned"
     /\ Len(batches) >= 2
     /\ \E f \in Batches :
          /\ ChildFailed(f)
          /\ \A b \in Batches \ {f} : ChildSucceeded(b))
    => \A b \in Batches :
         IF ChildFailed(b) THEN OrdersOf(b) \cap RenderedSet = {}
                           ELSE OrdersOf(b) \subseteq RenderedSet

\* C3: a batch is completed only if its child exited with status zero having
\* written exactly the summary; a child that exits with a non-zero status
\* makes the batch failed and none of its orders is in the rendered list.
C3_CompletedOnlyOnCleanExit ==
    \A b \in Batches :
        /\ task[b].state = "completed" =>
               task[b].child.exit = 0 /\ Parses(task[b].child.stdout)
        /\ (Exited(b) /\ task[b].child.exit # 0) =>
               task[b].state = "failed" /\ OrdersOf(b) \cap RenderedSet = {}

\* C4: every output appended to an order was reported by the function
\* generated for that very order (an output's relpath names its producer).
C4_OutputsOnOwnOrder ==
    \A o \in Orders : \A i \in 1 .. Len(outputs[o]) : outputs[o][i].relpath[1] = o

\* C5: when render_asyncio has ended, every batch it was given has been
\* launched exactly once and is completed or failed; none is left queued or
\* in flight.
C5_EveryBatchRunsOnce ==
    pc \in {"returned", "raised"} =>
        /\ queue = <<>> /\ pending = {}
        /\ \A b \in Batches : Finished(b) /\ launches[b] = 1

\* The relpaths of the outputs appended to order o.
OutputPaths(o) == {outputs[o][i].relpath : i \in 1 .. Len(outputs[o])}

\* C19: every output of an order handled as rendered is in the archive under
\* its relative path and its file under workdir is gone; the archive holds no
\* output of a failed batch; and when render_asyncio has ended no file of an
\* archived output is left under workdir.
C19_ArchivedThenDeleted ==
    /\ \A o \in RenderedSet :
          OutputPaths(o) \subseteq archive /\ OutputPaths(o) \cap workfiles = {}
    /\ \A b \in Batches :
          ChildFailed(b) => Produced(task[b].child.stdout) \cap archive = {}
    /\ pc \in {"returned", "raised"} => archive \cap workfiles = {}

\* C23: whenever render_asyncio is suspended in asyncio.wait, the queue is
\* empty or the tasks in flight are as many as the pool allows: no batch
\* waits in the queue while a slot is free.
C23_WorkConserving ==
    pc = "wait" => (queue = <<>> \/ Cardinality(pending) = max_tasks)

\* C23's case: after a first batch has been handled the scheduler has
\* refilled the pool and waits again, a batch still being queued.
C23_Witness ==
    /\ pc = "wait"
    /\ rendered # <<>>
    /\ queue # <<>>
    /\ Cardinality(pending) = max_tasks

\* The name of the function generated for order o in its batch's script.
NameOf(o) ==
    LET b == BatchOf(o)
    IN  (CHOOSE i \in 1 .. Len(batches[b]) : batches[b][i] = o) - 1

\* C24: once a batch has completed with a successful child, the render time
\* of each of its orders is the timing the child reported under that order's
\* name, added once, however many outputs the order's function reported.
C24_TimingOncePerOrder ==
    \A b \in Batches :
        (task[b].state = "completed" /\ ChildSucceeded(b)) =>
            \A o \in OrdersOf(b) :
                render_time_ns[o] = task[b].child.stdout.timings[NameOf(o)]

\* The outputs the child of o's batch reported under o's name.
ReportedFor(o) ==
    LET out == task[BatchOf(o)].child.stdout.outputs
    IN  {i \in 1 .. Len(out) : out[i].name = NameOf(o)}

\* C25: an order of the rendered list belongs to a batch whose child
\* succeeded and reported at least one output under the order's name; no
\* order is twice in the list.
C25_RenderedHasOutput ==
    /\ \A o \in RenderedSet :
          ChildSucceeded(BatchOf(o)) /\ ReportedFor(o) # {}
    /\ \A i, j \in 1 .. Len(rendered) : rendered[i] = rendered[j] => i = j

\* C26: a step in which run_render_script fails for a batch leaves the
\* outputs and the render time of every order as they were.
C26_FailedBatchUpdatesNothing ==
    [][(\E b \in Batches : task[b].state = "running" /\ task'[b].state = "failed")
        => (outputs' = outputs /\ render_time_ns' = render_time_ns)]_vars

\* run_render_script applied to the first k batches in the order of
\* submission, each with the output its child has written, on orders as the
\* order builder made them: the outputs, the render times and the orders of
\* the batches that returned.
RECURSIVE Replay(_)
Replay(k) ==
    IF k = 0
    THEN [outputs |-> [o \in Orders |-> <<>>],
          render_time_ns |-> [o \in Orders |-> 0],
          raised |-> FALSE,
          rendered |-> {}]
    ELSE LET prev == [Replay(k - 1) EXCEPT !.raised = FALSE]
             stdout == task[k].child.stdout
         IN  IF ~Parses(stdout) THEN prev
             ELSE LET r == SetRenderInfo(stdout, 1, prev)
                  IN  IF r.raised THEN r
                      ELSE [r EXCEPT !.rendered = @ \cup OrdersOf(k)]

\* C27: when render_asyncio returns, the rendered orders, the outputs and the
\* render time of every order are those the batches' children determine,
\* whatever the order in which the children ended and whatever the pool size:
\* they are what handling the batches one by one in the order of submission
\* gives.
C27_CompletionOrderIrrelevant ==
    pc = "returned" =>
        /\ RenderedSet = Replay(Len(batches)).rendered
        /\ outputs = Replay(Len(batches)).outputs
        /\ render_time_ns = Replay(Len(batches)).render_time_ns

=============================================================================
